---- MODULE Spec2Model ----
(***************************************************************************)
(* The peer-connection negotiation layer of OLUNOX: the polling hook       *)
(* useServerlessWebRTC (src/src/hooks/useServerlessWebRTC.ts), the socket  *)
(* hook useWebRTC (src/unnamed/part_003) and the store-and-forward relay   *)
(* (src/netlify/functions/gemini-summarize.js, webrtc-signaling handler).  *)
(*                                                                         *)
(* JavaScript runs one handler segment at a time; every await is a point   *)
(* where other segments run.  Each action below is one such segment.       *)
(* RTCPeerConnection objects are rows of pcs; what the browser does with   *)
(* them (descriptions, candidates, connection-state events) follows the    *)
(* W3C WebRTC API the source calls.                                        *)
(***************************************************************************)
EXTENDS Integers, Sequences, FiniteSets, TLC

\* ------------------------------------------------------------------ bounds
MaxEnv == 2
\* Requests the clients of the game back end make in a run.
MaxRequests == 6
MaxPolls == 2
MaxRetries == 4
MaxCand == 1
\* Requests the relay serves in a run of the relay alone.
MaxLog == 4
\* Changes of props, of the local stream and unmounts of one hook.
MaxLife == 3

\* ------------------------------------------------------- program constants
MaxAttempts == 3
RetryBaseMs == 2000
GraceMs == 10000
StaggerMs == 1500
ConnectDelayMs == 500

\* --------------------------------------------------------------- identities
PeerIds == {"alice", "bob", "carol"}
Hooks == {"alice", "bob"}

\* The character codes of the ids, for the JavaScript string comparison.
CharCodes ==
  [alice |-> <<97, 108, 105, 99, 101>>,
   bob   |-> <<98, 111, 98>>,
   carol |-> <<99, 97, 114, 111, 108>>]

RECURSIVE LexLess(_, _)
LexLess(s, t) ==
  IF t = <<>> THEN FALSE
  ELSE IF s = <<>> THEN TRUE
  ELSE IF Head(s) < Head(t) THEN TRUE
  ELSE IF Head(s) > Head(t) THEN FALSE
  ELSE LexLess(Tail(s), Tail(t))

\* playerId > from
StrLess_Reversed(a, b) == LexLess(CharCodes[b], CharCodes[a])

\* playerId < from
StrLess(a, b) == LexLess(CharCodes[a], CharCodes[b])

VARIABLES
  impl,                   \* which hook the component mounted
  peerConnections,        \* [hook -> [peer -> pc id, 0 = no entry]]
  connectionAttempts,     \* [hook -> [peer -> count, 0 = no entry]]
  pendingOffers,          \* [hook -> set of peers]
  isInitiator,            \* [hook -> [peer -> "none" | "true" | "false"]]
  connectionStates,       \* [hook -> [peer -> state name, "none" = no entry]]
  establishedConnections, \* [hook -> set of peers]
  iceCandidateQueue,      \* [hook -> [peer -> sequence of candidates]]
  pendingCandidates,      \* useWebRTC: [hook -> [peer -> sequence of candidates]]
  remoteStreams,          \* [hook -> [peer -> pc id whose stream is shown, 0 = none]]
  pcs,                    \* [hook -> [peer -> its RTCPeerConnections, oldest first]]
  timers,                 \* pending setTimeout callbacks
  calls,                  \* initiateCall invocations awaiting createOffer/setLocalDescription
  chains,                 \* [hook -> running pollSignalingMessages invocations]
  net,                    \* POST requests on their way to the relay
  signalingData,          \* the relay's Map: [key -> queued messages]
  used,                   \* how many of its MaxEnv inputs the environment has made
  lifecycle,              \* [hook -> its props, localStream and polling interval]
  hist,                   \* history of what was sent and done (not program state)
  backend                 \* the game back end: its games, players and running requests

vars ==
  <<impl, peerConnections, connectionAttempts, pendingOffers, isInitiator,
    connectionStates, establishedConnections, iceCandidateQueue,
    pendingCandidates, remoteStreams, pcs, timers, calls, chains, net, signalingData, used,
    lifecycle, hist, backend>>

\* Everything but the game back end.
rtcVars ==
  <<impl, peerConnections, connectionAttempts, pendingOffers, isInitiator,
    connectionStates, establishedConnections, iceCandidateQueue,
    pendingCandidates, remoteStreams, pcs, timers, calls, chains, net, signalingData, used,
    lifecycle, hist>>

\* The mutable world as one record, so that a handler that calls another
\* handler is the composition of two functions on it.
World ==
  [peerConnections |-> peerConnections,
   connectionAttempts |-> connectionAttempts,
   pendingOffers |-> pendingOffers,
   isInitiator |-> isInitiator,
   connectionStates |-> connectionStates,
   establishedConnections |-> establishedConnections,
   iceCandidateQueue |-> iceCandidateQueue,
   pendingCandidates |-> pendingCandidates,
   remoteStreams |-> remoteStreams,
   pcs |-> pcs,
   timers |-> timers,
   calls |-> calls,
   chains |-> chains,
   net |-> net,
   signalingData |-> signalingData,
   lifecycle |-> lifecycle,
   hist |-> hist]

Becomes(W) ==
  /\ peerConnections' = W.peerConnections
  /\ connectionAttempts' = W.connectionAttempts
  /\ pendingOffers' = W.pendingOffers
  /\ isInitiator' = W.isInitiator
  /\ connectionStates' = W.connectionStates
  /\ establishedConnections' = W.establishedConnections
  /\ iceCandidateQueue' = W.iceCandidateQueue
  /\ pendingCandidates' = W.pendingCandidates
  /\ remoteStreams' = W.remoteStreams
  /\ pcs' = W.pcs
  /\ timers' = W.timers
  /\ calls' = W.calls
  /\ chains' = W.chains
  /\ net' = W.net
  /\ signalingData' = W.signalingData
  /\ lifecycle' = W.lifecycle
  /\ hist' = W.hist
  /\ backend' = backend

\* ------------------------------------------------------ RTCPeerConnection
\* An element of pcs[h][p]; its id is its index there.  conn is
\* connectionState, sig is signalingState, hasRemote says that
\* remoteDescription is set, remote is the id, at the peer, of the pc that
\* produced it (0: the peer is not a modelled hook), applied lists the
\* candidates addIceCandidate accepted, cands counts the local candidates it has gathered.  init and early are history: the role the pc
\* was created in and the candidates that reached the hook for this session
\* before its remote description.
NewPc(isInitiatingCall, queued) ==
  [init |-> isInitiatingCall, conn |-> "new",
   sig |-> "stable", hasRemote |-> FALSE, remote |-> 0,
   applied |-> <<>>, early |-> queued, cands |-> 0]

\* pc.close()
closePc(pc) ==
  [pc EXCEPT !.conn = "closed", !.sig = "closed", !.hasRemote = FALSE,
             !.remote = 0, !.applied = <<>>, !.early = <<>>, !.cands = 0]

\* addIceCandidate that takes every candidate.
addIceCandidate_Unchecked(pc, cand) == [pc EXCEPT !.applied = Append(@, cand)]

\* pc.addIceCandidate(candidate): rejects (InvalidStateError) while
\* remoteDescription is null, and for a candidate the browser cannot parse.
addIceCandidate(pc, cand) ==
  IF pc.hasRemote /\ cand.ok /\ pc.conn # "closed"
  THEN [pc EXCEPT !.applied = Append(@, cand)]
  ELSE pc

RECURSIVE addIceCandidates(_, _)
addIceCandidates(pc, queue) ==
  IF queue = <<>> THEN pc
  ELSE addIceCandidates(addIceCandidate(pc, Head(queue)), Tail(queue))

\* existingPc.connectionState === 'connected' || ... === 'connecting'
Working(W, h, p) ==
  LET existingPc == W.peerConnections[h][p]
  IN  existingPc # 0 /\ W.pcs[h][p][existingPc].conn \in {"connected", "connecting"}

\* ------------------------------------------------------------- messages
Payload(src, ok, c) == [src |-> src, ok |-> ok, c |-> c, some |-> TRUE]
\* The payload of a message that was posted without one.
Undefined == [src |-> 0, ok |-> FALSE, c |-> 0, some |-> FALSE]
NoMsg == [type |-> "none", from |-> "", payload |-> Payload(0, TRUE, 0)]
NoSent == [type |-> "none", from |-> "", to |-> "", payload |-> Payload(0, TRUE, 0)]
Idle == [k |-> "none", pc |-> 0, m |-> NoMsg, sent |-> NoSent]
Timer(h, kind, p, pc, delay) ==
  [h |-> h, kind |-> kind, peer |-> p, pc |-> pc, delay |-> delay, peerIds |-> <<>>]

\* sendSignalingMessage: the POST leaves the hook; it reaches the relay in RelayPost.
sendSignalingMessage(W, h, type, to, payload) ==
  LET m == [type |-> type, from |-> h, to |-> to, payload |-> payload]
  IN  [W EXCEPT !.net = @ \cup {m}, !.hist.sent = @ \cup {m}]

\* ------------------------------------------------- useServerlessWebRTC
\* createPeerConnection without existingPc.close().
createPeerConnection_KeepsOld(W, h, p, isInitiatingCall) ==
  LET queuedCandidates == W.iceCandidateQueue[h][p]
      pc == addIceCandidates(NewPc(isInitiatingCall, queuedCandidates),
                             queuedCandidates)
  IN  IF Working(W, h, p) THEN W
      ELSE [W EXCEPT !.pcs[h][p] = Append(@, pc),
                     !.peerConnections[h][p] = Len(W.pcs[h][p]) + 1,
                     !.isInitiator[h][p] = IF isInitiatingCall THEN "true" ELSE "false",
                     !.connectionStates[h][p] = "new",
                     !.iceCandidateQueue[h][p] = <<>>,
                     !.hist.removed[h] = @ \ {p}]

createPeerConnection(W, h, p, isInitiatingCall) ==
  LET existingPc == W.peerConnections[h][p]
      queuedCandidates == W.iceCandidateQueue[h][p]
      closed == IF existingPc # 0
                THEN [W.pcs[h][p] EXCEPT ![existingPc] = closePc(@)]
                ELSE W.pcs[h][p]
      pc == addIceCandidates(NewPc(isInitiatingCall, queuedCandidates),
                             queuedCandidates)
  IN  IF Working(W, h, p) THEN W
      ELSE [W EXCEPT !.pcs[h][p] = Append(closed, pc),
                     !.peerConnections[h][p] = Len(closed) + 1,
                     !.isInitiator[h][p] = IF isInitiatingCall THEN "true" ELSE "false",
                     !.connectionStates[h][p] = "new",
                     !.iceCandidateQueue[h][p] = <<>>,
                     !.hist.removed[h] = @ \ {p}]

\* removePeerConnection without isInitiator.current.delete(peerId).
removePeerConnection_KeepsRole(W, h, p) ==
  LET pc == W.peerConnections[h][p]
  IN  [W EXCEPT !.pcs[h][p] = IF pc # 0 THEN [@ EXCEPT ![pc] = closePc(@)]
                              ELSE @,
                !.peerConnections[h][p] = 0,
                !.connectionAttempts[h][p] = 0,
                !.pendingOffers[h] = @ \ {p},
                !.connectionStates[h][p] = "none",
                !.establishedConnections[h] = @ \ {p},
                !.iceCandidateQueue[h][p] = <<>>,
                !.remoteStreams[h][p] = 0,
                !.hist.removed[h] =
                   IF pc # 0 /\ W.pcs[h][p][pc].conn \in {"new", "connecting"}
                   THEN @ \cup {p} ELSE @]

\* removePeerConnection with pendingOffers.current.clear() for delete(peerId).
removePeerConnection_ClearsPending(W, h, p) ==
  LET pc == W.peerConnections[h][p]
  IN  [W EXCEPT !.pcs[h][p] = IF pc # 0 THEN [@ EXCEPT ![pc] = closePc(@)]
                              ELSE @,
                !.peerConnections[h][p] = 0,
                !.connectionAttempts[h][p] = 0,
                !.pendingOffers[h] = {},
                !.isInitiator[h][p] = "none",
                !.connectionStates[h][p] = "none",
                !.establishedConnections[h] = @ \ {p},
                !.iceCandidateQueue[h][p] = <<>>,
                !.remoteStreams[h][p] = 0,
                !.hist.removed[h] =
                   IF pc # 0 /\ W.pcs[h][p][pc].conn \in {"new", "connecting"}
                   THEN @ \cup {p} ELSE @]

\* removePeerConnection without pendingOffers.current.delete(peerId).
removePeerConnection_KeepsPending(W, h, p) ==
  LET pc == W.peerConnections[h][p]
  IN  [W EXCEPT !.pcs[h][p] = IF pc # 0 THEN [@ EXCEPT ![pc] = closePc(@)]
                              ELSE @,
                !.peerConnections[h][p] = 0,
                !.connectionAttempts[h][p] = 0,
                !.isInitiator[h][p] = "none",
                !.connectionStates[h][p] = "none",
                !.establishedConnections[h] = @ \ {p},
                !.iceCandidateQueue[h][p] = <<>>,
                !.remoteStreams[h][p] = 0,
                !.hist.removed[h] =
                   IF pc # 0 /\ W.pcs[h][p][pc].conn \in {"new", "connecting"}
                   THEN @ \cup {p} ELSE @]

\* removePeerConnection without the setRemoteStreams call.
removePeerConnection_KeepsStream(W, h, p) ==
  LET pc == W.peerConnections[h][p]
  IN  [W EXCEPT !.pcs[h][p] = IF pc # 0 THEN [@ EXCEPT ![pc] = closePc(@)]
                              ELSE @,
                !.peerConnections[h][p] = 0,
                !.connectionAttempts[h][p] = 0,
                !.pendingOffers[h] = @ \ {p},
                !.isInitiator[h][p] = "none",
                !.connectionStates[h][p] = "none",
                !.establishedConnections[h] = @ \ {p},
                !.iceCandidateQueue[h][p] = <<>>,
                !.hist.removed[h] =
                   IF pc # 0 /\ W.pcs[h][p][pc].conn \in {"new", "connecting"}
                   THEN @ \cup {p} ELSE @]

removePeerConnection(W, h, p) ==
  LET pc == W.peerConnections[h][p]
  IN  [W EXCEPT !.pcs[h][p] = IF pc # 0 THEN [@ EXCEPT ![pc] = closePc(@)]
                              ELSE @,
                !.peerConnections[h][p] = 0,
                !.connectionAttempts[h][p] = 0,
                !.pendingOffers[h] = @ \ {p},
                !.isInitiator[h][p] = "none",
                !.connectionStates[h][p] = "none",
                !.establishedConnections[h] = @ \ {p},
                !.iceCandidateQueue[h][p] = <<>>,
                !.remoteStreams[h][p] = 0,
                !.hist.removed[h] =
                   IF pc # 0 /\ W.pcs[h][p][pc].conn \in {"new", "connecting"}
                   THEN @ \cup {p} ELSE @]

\* handleConnectionFailure without the wasInitiator test.
handleConnectionFailure_AnyRole(W, h, p) ==
  LET attempts == W.connectionAttempts[h][p]
  IN  IF attempts < MaxAttempts
      THEN LET W1 == [W EXCEPT !.connectionAttempts[h][p] = attempts + 1]
               W2 == removePeerConnection(W1, h, p)
           IN  [W2 EXCEPT !.timers = @ \cup
                  {Timer(h, "retry", p, 0, RetryBaseMs + attempts * RetryBaseMs)}]
      ELSE removePeerConnection(W, h, p)

handleConnectionFailure(W, h, p) ==
  LET attempts == W.connectionAttempts[h][p]
      wasInitiator == W.isInitiator[h][p] = "true"
  IN  IF attempts < MaxAttempts /\ wasInitiator
      THEN LET W1 == [W EXCEPT !.connectionAttempts[h][p] = attempts + 1]
               W2 == removePeerConnection(W1, h, p)
           IN  [W2 EXCEPT !.timers = @ \cup
                  {Timer(h, "retry", p, 0, RetryBaseMs + attempts * RetryBaseMs)}]
      ELSE removePeerConnection(W, h, p)

\* initiateCall up to its first await (pc.createOffer).
initiateCall(W, h, p) ==
  IF p \in W.pendingOffers[h] THEN W
  ELSE IF Working(W, h, p) THEN W
  ELSE LET W1 == [W EXCEPT !.pendingOffers[h] = @ \cup {p}]
           W2 == createPeerConnection(W1, h, p, TRUE)
       IN  [W2 EXCEPT !.calls = @ \cup
              {[h |-> h, peer |-> p, pc |-> W2.peerConnections[h][p]]}]

\* initiateCall after createOffer and setLocalDescription resolved: the offer is sent.
initiateCallResume(W, t) ==
  LET W1 == [W EXCEPT !.pcs[t.h][t.peer][t.pc].sig = "have-local-offer",
                       !.calls = @ \ {t}]
  IN  sendSignalingMessage(W1, t.h, "offer", t.peer, Payload(t.pc, TRUE, 0))

\* initiateCall's catch: createOffer or setLocalDescription rejected.
initiateCallCatch(W, t) ==
  removePeerConnection([W EXCEPT !.pendingOffers[t.h] = @ \ {t.peer},
                                 !.calls = @ \ {t}], t.h, t.peer)

\* An initiateCall whose awaited operation rejects once its pc is closed.
initiateCallHangs_Catches(W, t) == initiateCallCatch(W, t)

\* The promise of an operation on a pc that was closed meanwhile stays
\* pending (W3C: "if connection.[[IsClosed]] is true, abort these steps").
initiateCallHangs(W, t) == [W EXCEPT !.calls = @ \ {t}]

\* ------------------------------------------------ the poller's invocations
\* One invocation of pollSignalingMessages: msgs are the fetched messages not
\* yet handled, wait is the await its current handler is suspended at.
RemoveAt(seq, i) == SubSeq(seq, 1, i - 1) \o SubSeq(seq, i + 1, Len(seq))

\* The invocation goes on with the rest of its batch; one with nothing left
\* to do is gone.
setChain(W, h, i, msgs, wait) ==
  IF msgs = <<>> /\ wait.k \in {"none", "send"}
  THEN [W EXCEPT !.chains[h] = RemoveAt(@, i)]
  ELSE [W EXCEPT !.chains[h][i] = [msgs |-> msgs, wait |-> wait]]

\* A handler threw outside its own try: the for loop of the invocation is
\* left for the catch of pollSignalingMessages, the rest of the batch unread.
pollCatch(W, h, i) == [W EXCEPT !.chains[h] = RemoveAt(@, i)]

\* handleOffer up to its first await (pc.setRemoteDescription).  offer.type
\* is read for the log before the try.
handleOffer(W, h, i, m, rest) ==
  LET from == m.from
  IN  IF Working(W, h, from) THEN setChain(W, h, i, rest, Idle)
      ELSE IF from \in W.pendingOffers[h] /\ StrLess(h, from)
           THEN setChain(W, h, i, rest, Idle)
      ELSE IF m.payload = Undefined THEN pollCatch(W, h, i)
      ELSE LET W1 == createPeerConnection(W, h, from, FALSE)
           IN  setChain(W1, h, i, rest,
                 [k |-> "offer", pc |-> W1.peerConnections[h][from],
                  m |-> m, sent |-> NoSent])

\* An ontrack that does not call setRemoteStreams.
ontrack_Dropped(W, h, p, pc) == W

\* pc.ontrack, fired while setRemoteDescription applies a description with tracks.
ontrack(W, h, p, pc) == [W EXCEPT !.remoteStreams[h][p] = pc]

\* handleOffer after setRemoteDescription, createAnswer and setLocalDescription.
handleOfferResume(W, h, i) ==
  LET c == W.chains[h][i]
      pc == c.wait.pc
      from == c.wait.m.from
      answer == [type |-> "answer", from |-> h, to |-> from,
                 payload |-> Payload(pc, TRUE, 0)]
  IN  IF c.wait.m.payload.ok
      THEN LET W1 == [W EXCEPT !.pcs[h][from][pc].hasRemote = TRUE,
                               !.pcs[h][from][pc].remote = c.wait.m.payload.src,
                               !.pcs[h][from][pc].sig = "stable"]
               W2 == ontrack(W1, h, from, pc)
               W3 == sendSignalingMessage(W2, h, "answer", from, answer.payload)
           IN  setChain(W3, h, i, c.msgs,
                 [k |-> "send", pc |-> 0, m |-> NoMsg, sent |-> answer])
      ELSE setChain(removePeerConnection(W, h, from), h, i, c.msgs, Idle)

\* handleAnswer up to its await (pc.setRemoteDescription).  answer.type is
\* read for the log first.
handleAnswer(W, h, i, m, rest) ==
  LET pc == W.peerConnections[h][m.from]
  IN  IF m.payload = Undefined THEN pollCatch(W, h, i)
      ELSE IF pc # 0 /\ W.pcs[h][m.from][pc].sig = "have-local-offer"
      THEN setChain(W, h, i, rest,
             [k |-> "answer", pc |-> pc, m |-> m, sent |-> NoSent])
      ELSE setChain(W, h, i, rest, Idle)

\* handleAnswer after setRemoteDescription settled.
handleAnswerResume(W, h, i) ==
  LET c == W.chains[h][i]
      pc == c.wait.pc
      from == c.wait.m.from
  IN  IF c.wait.m.payload.ok /\ W.pcs[h][from][pc].sig = "have-local-offer"
      THEN LET W1 == [W EXCEPT !.pcs[h][from][pc].hasRemote = TRUE,
                               !.pcs[h][from][pc].remote = c.wait.m.payload.src,
                               !.pcs[h][from][pc].sig = "stable"]
               W2 == ontrack(W1, h, from, pc)
           IN  setChain([W2 EXCEPT !.pendingOffers[h] = @ \ {from}],
                        h, i, c.msgs, Idle)
      ELSE setChain(removePeerConnection(W, h, from), h, i, c.msgs, Idle)

\* The handler's promise stays pending on a closed pc: the invocation never
\* reaches the rest of its batch.
chainHangs(W, h, i) == [W EXCEPT !.chains[h] = RemoveAt(@, i)]

\* candidate.candidate is read for the log first.
handleIceCandidate(W, h, i, m, rest) ==
  LET from == m.from
      pc == W.peerConnections[h][from]
      candidate == [id |-> m.payload.c, ok |-> m.payload.ok]
  IN  IF m.payload = Undefined THEN pollCatch(W, h, i)
      ELSE IF pc # 0 /\ W.pcs[h][from][pc].hasRemote
      THEN setChain([W EXCEPT !.pcs[h][from][pc] = addIceCandidate(@, candidate)],
                    h, i, rest, Idle)
      ELSE LET W1 == [W EXCEPT !.iceCandidateQueue[h][from] = Append(@, candidate)]
               W2 == IF pc # 0
                     THEN [W1 EXCEPT !.pcs[h][from][pc].early = Append(@, candidate)]
                     ELSE W1
           IN  setChain(W2, h, i, rest, Idle)

handleSignalingMessage(W, h, i) ==
  LET c == W.chains[h][i]
      message == Head(c.msgs)
      rest == Tail(c.msgs)
  IN  IF message.from = h THEN setChain(W, h, i, rest, Idle)
      ELSE CASE message.type = "offer" -> handleOffer(W, h, i, message, rest)
             [] message.type = "answer" -> handleAnswer(W, h, i, message, rest)
             [] message.type = "ice-candidate" ->
                  handleIceCandidate(W, h, i, message, rest)
             [] OTHER -> setChain(W, h, i, rest, Idle)

\* ------------------------------------------------------ the two effects
\* clearInterval(pollingInterval.current); the ref keeps the stale id.
clearPollingInterval(L) ==
  IF L.pollingInterval # 0 THEN [L EXCEPT !.intervals = @ \ {L.pollingInterval}]
  ELSE L

\* The polling effect: with both ids it starts an interval and returns a
\* cleanup that clears it, without them it does nothing.
pollingEffect(L) ==
  IF L.gameId /\ L.playerId
  THEN [L EXCEPT !.pollingInterval = L.started + 1,
                 !.intervals = @ \cup {L.started + 1},
                 !.started = @ + 1,
                 !.hasCleanup = TRUE]
  ELSE [L EXCEPT !.hasCleanup = FALSE]

\* The cleanup returned by the effect with dependencies [localStream]: every
\* pc of the Map is closed, the refs are cleared and so is the interval.
cleanup(W, h) ==
  [W EXCEPT
     !.pcs[h] = [p \in PeerIds |->
                   IF W.peerConnections[h][p] # 0
                   THEN [W.pcs[h][p] EXCEPT ![W.peerConnections[h][p]] = closePc(@)]
                   ELSE W.pcs[h][p]],
     !.peerConnections[h] = [p \in PeerIds |-> 0],
     !.connectionAttempts[h] = [p \in PeerIds |-> 0],
     !.pendingOffers[h] = {},
     !.isInitiator[h] = [p \in PeerIds |-> "none"],
     !.connectionStates[h] = [p \in PeerIds |-> "none"],
     !.establishedConnections[h] = {},
     !.iceCandidateQueue[h] = [p \in PeerIds |-> <<>>],
     !.lifecycle[h] = clearPollingInterval(@)]

\* A render of the hook with new props or a new localStream is committed:
\* the cleanups of the effects whose dependencies changed run, in the order
\* of the effects, and then these effects run again.  pollSignalingMessages
\* is memoised on [gameId, playerId] and changes only with them.
commit(W, h, gameId, playerId, localStream) ==
  LET L == W.lifecycle[h]
      polling == gameId # L.gameId \/ playerId # L.playerId
      stream == localStream # L.localStream
      W1 == IF polling /\ L.hasCleanup
            THEN [W EXCEPT !.lifecycle[h] = clearPollingInterval(@)]
            ELSE W
      W2 == IF stream THEN cleanup(W1, h) ELSE W1
      W3 == [W2 EXCEPT !.lifecycle[h].gameId = gameId,
                       !.lifecycle[h].playerId = playerId,
                       !.lifecycle[h].localStream = localStream,
                       !.lifecycle[h].events = @ + 1]
  IN  IF polling THEN [W3 EXCEPT !.lifecycle[h] = pollingEffect(@)] ELSE W3

\* The component is unmounted: the cleanups of both effects run.
unmount(W, h) ==
  LET W1 == IF W.lifecycle[h].hasCleanup
            THEN [W EXCEPT !.lifecycle[h] = clearPollingInterval(@)]
            ELSE W
  IN  [cleanup(W1, h) EXCEPT !.lifecycle[h].mounted = FALSE,
                             !.lifecycle[h].hasCleanup = FALSE,
                             !.lifecycle[h].events = @ + 1]

\* ------------------------------------------------ the relay's handler
\* The game every modelled hook is mounted with.
GameId == "GAME"

\* The key with the game's id left out.
Key_ToOnly(gameId, to) == to

\* `${gameId}-${to}`
Key(gameId, to) == gameId \o "-" \o to

\* signalingData.get(key) || []
MapGet(map, key) == IF key \in DOMAIN map THEN map[key] ELSE <<>>

\* POST: {type, from, payload} is pushed onto the array under the key of
\* (gameId, to), which is created when missing.  The timestamp the relay
\* adds is read by nobody and left out.
handlerPOST(map, data) ==
  LET key == Key(data.gameId, data.to)
      queue == Append(MapGet(map, key),
                      [type |-> data.type, from |-> data.from,
                       payload |-> data.payload])
  IN  [k \in DOMAIN map \cup {key} |-> IF k = key THEN queue ELSE map[k]]

\* GET that answers without signalingData.delete(key).
handlerGET_KeepsKey(map, gameId, playerId) ==
  [messages |-> MapGet(map, Key(gameId, playerId)), map |-> map]

\* GET: the array under the key of (gameId, playerId) is the response and
\* the key is deleted, in one run of the handler.
handlerGET(map, gameId, playerId) ==
  LET key == Key(gameId, playerId)
  IN  [messages |-> MapGet(map, key),
       map |-> [k \in DOMAIN map \ {key} |-> map[k]]]

\* The messages queued for hook or peer p of the game.
Mailbox(map, p) == MapGet(map, Key(GameId, p))

\* A tick of the poller: the GET's response is the batch of a new invocation.
pollSignalingMessages(W, h) ==
  LET got == handlerGET(W.signalingData, GameId, h)
  IN  [W EXCEPT !.chains[h] = Append(@, [msgs |-> got.messages, wait |-> Idle]),
                !.signalingData = got.map]

\* The POST of sendSignalingMessage reaches the relay.
relayPost(W, m) ==
  [W EXCEPT !.signalingData =
              handlerPOST(@, [type |-> m.type, gameId |-> GameId, from |-> m.from,
                              to |-> m.to, payload |-> m.payload]),
            !.net = @ \ {m}]

\* ------------------------------------------- connection-state callbacks
\* pc.onicecandidate with a candidate.
onicecandidate(W, h, p, n) ==
  sendSignalingMessage([W EXCEPT !.pcs[h][p][n].cands = @ + 1],
                       h, "ice-candidate", p,
                       Payload(n, TRUE, W.pcs[h][p][n].cands + 1))

oniceconnectionstatechange(W, h, p, n, iceConnectionState) ==
  IF iceConnectionState = "failed"
  THEN handleConnectionFailure(W, h, p)
  ELSE W

\* onconnectionstatechange whose 'connected' branch leaves pendingOffers alone.
onconnectionstatechange_KeepsPending(W, h, p, n) ==
  LET newState == W.pcs[h][p][n].conn
      oldState == W.connectionStates[h][p]
      W1 == [W EXCEPT !.connectionStates[h][p] = newState]
  IN  IF newState = oldState THEN W
      ELSE CASE newState = "connected" ->
                  [W1 EXCEPT !.connectionAttempts[h][p] = 0,
                             !.establishedConnections[h] = @ \cup {p}]
             [] newState = "failed" ->
                  handleConnectionFailure(
                    [W1 EXCEPT !.establishedConnections[h] = @ \ {p}], h, p)
             [] newState = "disconnected" ->
                  [W1 EXCEPT !.establishedConnections[h] = @ \ {p},
                             !.timers = @ \cup {Timer(h, "grace", p, n, GraceMs)}]
             [] OTHER -> W1

\* pc.onconnectionstatechange; pc.connectionState is read when it runs.
\* onconnectionstatechange that keeps the peer established on 'disconnected'.
onconnectionstatechange_KeepsEstablished(W, h, p, n) ==
  LET newState == W.pcs[h][p][n].conn
      oldState == W.connectionStates[h][p]
      W1 == [W EXCEPT !.connectionStates[h][p] = newState]
  IN  IF newState = oldState THEN W
      ELSE CASE newState = "connected" ->
                  [W1 EXCEPT !.connectionAttempts[h][p] = 0,
                             !.pendingOffers[h] = @ \ {p},
                             !.establishedConnections[h] = @ \cup {p}]
             [] newState = "failed" ->
                  handleConnectionFailure(
                    [W1 EXCEPT !.establishedConnections[h] = @ \ {p}], h, p)
             [] newState = "disconnected" ->
                  [W1 EXCEPT !.timers = @ \cup {Timer(h, "grace", p, n, GraceMs)}]
             [] OTHER -> W1

onconnectionstatechange(W, h, p, n) ==
  LET newState == W.pcs[h][p][n].conn
      oldState == W.connectionStates[h][p]
      W1 == [W EXCEPT !.connectionStates[h][p] = newState]
  IN  IF newState = oldState THEN W
      ELSE CASE newState = "connected" ->
                  [W1 EXCEPT !.connectionAttempts[h][p] = 0,
                             !.pendingOffers[h] = @ \ {p},
                             !.establishedConnections[h] = @ \cup {p}]
             [] newState = "failed" ->
                  handleConnectionFailure(
                    [W1 EXCEPT !.establishedConnections[h] = @ \ {p}], h, p)
             [] newState = "disconnected" ->
                  [W1 EXCEPT !.establishedConnections[h] = @ \ {p},
                             !.timers = @ \cup {Timer(h, "grace", p, n, GraceMs)}]
             [] OTHER -> W1

establishConnections(W, h, peerIds) ==
  [W EXCEPT !.timers = @ \cup
     {Timer(h, "stagger", peerIds[k], 0, (k - 1) * StaggerMs) :
        k \in {j \in 1..Len(peerIds) :
                 peerIds[j] \notin W.establishedConnections[h]}}]

\* ------------------------------------------------------------- useWebRTC
useWebRTC_createPeerConnection(W, h, p) ==
  LET existingPc == W.peerConnections[h][p]
      pending == W.pendingCandidates[h][p]
      closed == IF existingPc # 0
                THEN [W.pcs[h][p] EXCEPT ![existingPc] = closePc(@)]
                ELSE W.pcs[h][p]
      pc == addIceCandidates(NewPc(FALSE, pending), pending)
  IN  [W EXCEPT !.pcs[h][p] = Append(closed, pc),
                !.peerConnections[h][p] = Len(closed) + 1,
                !.pendingCandidates[h][p] = <<>>]

useWebRTC_removePeerConnection(W, h, p) ==
  LET pc == W.peerConnections[h][p]
  IN  [W EXCEPT !.pcs[h][p] = IF pc # 0 THEN [@ EXCEPT ![pc] = closePc(@)]
                              ELSE @,
                !.peerConnections[h][p] = 0,
                !.pendingCandidates[h][p] = <<>>,
                !.remoteStreams[h][p] = 0]

\* initiateCall up to its first await (pc.createOffer).
useWebRTC_initiateCall(W, h, p) ==
  LET W1 == useWebRTC_createPeerConnection(W, h, p)
  IN  [W1 EXCEPT !.pcs[h][p][W1.peerConnections[h][p]].init = TRUE,
                 !.calls = @ \cup
                   {[h |-> h, peer |-> p, pc |-> W1.peerConnections[h][p]]}]

\* initiateCall after its awaits: socket.emit('webrtc-offer').
useWebRTC_initiateCallResume(W, t) ==
  [W EXCEPT !.pcs[t.h][t.peer][t.pc].sig = "have-local-offer",
            !.calls = @ \ {t},
            !.hist.sent = @ \cup {[type |-> "offer", from |-> t.h, to |-> t.peer,
                                   payload |-> Payload(t.pc, TRUE, 0)]}]

RECURSIVE useWebRTC_initiateCalls(_, _, _)
useWebRTC_initiateCalls(W, h, peerIds) ==
  IF peerIds = <<>> THEN W
  ELSE useWebRTC_initiateCalls(
         IF W.peerConnections[h][Head(peerIds)] = 0
         THEN useWebRTC_initiateCall(W, h, Head(peerIds))
         ELSE W,
         h, Tail(peerIds))

useWebRTC_establishConnections(W, h, peerIds) ==
  [W EXCEPT !.timers = @ \cup
     {[Timer(h, "connect", h, 0, ConnectDelayMs) EXCEPT !.peerIds = peerIds]}]

\* handleOffer up to its first await: the invocation is suspended in chains.
useWebRTC_handleOffer(W, h, m) ==
  LET W1 == useWebRTC_createPeerConnection(W, h, m.from)
  IN  [W1 EXCEPT !.chains[h] = Append(@,
         [msgs |-> <<>>,
          wait |-> [k |-> "offer", pc |-> W1.peerConnections[h][m.from],
                    m |-> m, sent |-> NoSent]])]

\* handleOffer after its awaits: socket.emit('webrtc-answer'), or the catch.
useWebRTC_handleOfferResume(W, h, i) ==
  LET c == W.chains[h][i]
      pc == c.wait.pc
      from == c.wait.m.from
      W0 == [W EXCEPT !.chains[h] = RemoveAt(@, i)]
  IN  IF c.wait.m.payload.ok
      THEN LET W1 == [W0 EXCEPT !.pcs[h][from][pc].hasRemote = TRUE,
                                !.pcs[h][from][pc].remote = c.wait.m.payload.src,
                                !.pcs[h][from][pc].sig = "stable"]
               W2 == ontrack(W1, h, from, pc)
           IN  [W2 EXCEPT !.hist.sent = @ \cup
                  {[type |-> "answer", from |-> h, to |-> from,
                    payload |-> Payload(pc, TRUE, 0)]}]
      ELSE useWebRTC_removePeerConnection(W0, h, from)

useWebRTC_handleAnswer(W, h, m) ==
  LET pc == W.peerConnections[h][m.from]
  IN  IF pc # 0
      THEN [W EXCEPT !.chains[h] = Append(@,
              [msgs |-> <<>>,
               wait |-> [k |-> "answer", pc |-> pc, m |-> m, sent |-> NoSent]])]
      ELSE W

\* handleAnswer after setRemoteDescription settled; an answer applied in a
\* signalingState other than have-local-offer is rejected.
useWebRTC_handleAnswerResume(W, h, i) ==
  LET c == W.chains[h][i]
      pc == c.wait.pc
      from == c.wait.m.from
      W0 == [W EXCEPT !.chains[h] = RemoveAt(@, i)]
  IN  IF c.wait.m.payload.ok /\ W.pcs[h][from][pc].sig = "have-local-offer"
      THEN ontrack([W0 EXCEPT !.pcs[h][from][pc].hasRemote = TRUE,
                              !.pcs[h][from][pc].remote = c.wait.m.payload.src,
                              !.pcs[h][from][pc].sig = "stable"], h, from, pc)
      ELSE useWebRTC_removePeerConnection(W0, h, from)

useWebRTC_handleIceCandidate(W, h, m) ==
  LET from == m.from
      pc == W.peerConnections[h][from]
      candidate == [id |-> m.payload.c, ok |-> m.payload.ok]
  IN  IF pc # 0 /\ W.pcs[h][from][pc].hasRemote
      THEN [W EXCEPT !.pcs[h][from][pc] = addIceCandidate(@, candidate)]
      ELSE LET W1 == [W EXCEPT !.pendingCandidates[h][from] = Append(@, candidate)]
           IN  IF pc # 0
               THEN [W1 EXCEPT !.pcs[h][from][pc].early = Append(@, candidate)]
               ELSE W1

\* A handler that tries the peer again after an ICE failure.
useWebRTC_oniceconnectionstatechange_Retries(W, h, p, n, iceConnectionState) ==
  IF iceConnectionState = "failed"
  THEN useWebRTC_establishConnections(useWebRTC_removePeerConnection(W, h, p),
                                      h, <<p>>)
  ELSE W

useWebRTC_oniceconnectionstatechange(W, h, p, n, iceConnectionState) ==
  IF iceConnectionState = "failed"
  THEN useWebRTC_removePeerConnection(W, h, p)
  ELSE W

\* ==================================================== the game back ends
\* A card is its number in createDeck's order before the shuffle: the card
\* with id `${type}-${index}` is number CardsPerType * (position of type) +
\* index.
Types == <<"Purpose", "Problems", "Prognosis", "Plan", "Perform">>
CardsPerType == 10
HandSize == 5
MaxPlayers == 8
NumCards == Len(Types) * CardsPerType
Cards == 0..(NumCards - 1)
TypeOf(card) == Types[(card \div CardsPerType) + 1]

\* The orders the shuffle of createDeck is let to produce here: the card at
\* place i is number (i - 1) * stride + shift modulo NumCards.
Strides == {1, 11}
Shifts == {0, 7}
Shuffles ==
  {[i \in 1..NumCards |-> ((i - 1) * stride + shift) % NumCards] :
     stride \in Strides, shift \in Shifts}

checkWinCondition(hand) ==
  LET types == {TypeOf(hand[i]) : i \in 1..Len(hand)}
  IN  Cardinality(types) = 5 /\ \A k \in 1..Len(Types) : Types[k] \in types

Min(a, b) == IF a < b THEN a ELSE b

\* deck.slice(0, numCards): the deck keeps the cards it deals.
dealCards_Slice(deck, numCards) ==
  [hand |-> SubSeq(deck, 1, Min(numCards, Len(deck))), deck |-> deck]

\* deck.splice(0, numCards): the cards taken and what is left of the deck.
dealCards(deck, numCards) ==
  [hand |-> SubSeq(deck, 1, Min(numCards, Len(deck))),
   deck |-> SubSeq(deck, Min(numCards, Len(deck)) + 1, Len(deck))]

\* games.set(gameId, game)
MapSet(map, key, value) ==
  [k \in DOMAIN map \cup {key} |-> IF k = key THEN value ELSE map[k]]

NoPlayer == ""
NoPrompt == -1
Response(B, statusCode) == [backend |-> B, statusCode |-> statusCode]

\* -------------------------------------------- the serverless game API
createGame(B, data, deck) ==
  LET dealt == dealCards(deck, HandSize)
      gameState ==
        [id |-> data.gameId,
         players |-> <<[id |-> data.player.id, isHost |-> data.player.isHost,
                        hand |-> dealt.hand]>>,
         currentPlayerIndex |-> 0,
         deck |-> dealt.deck,
         discardPile |-> <<>>,
         gamePhase |-> "lobby",
         winner |-> NoPlayer,
         currentPrompt |-> NoPrompt,
         hasPlayedCard |-> FALSE]
  IN  Response([B EXCEPT !.games = MapSet(@, data.gameId, gameState)], 200)

joinGame(B, data) ==
  IF data.gameId \notin DOMAIN B.games THEN Response(B, 404)
  ELSE LET game == B.games[data.gameId]
           dealt == dealCards(game.deck, HandSize)
           newPlayer == [id |-> data.player.id, isHost |-> data.player.isHost,
                         hand |-> dealt.hand]
       IN  IF Len(game.players) >= MaxPlayers THEN Response(B, 400)
           ELSE Response([B EXCEPT !.games[data.gameId].deck = dealt.deck,
                                   !.games[data.gameId].players =
                                      Append(@, newPlayer)], 200)

\* game.players.find(p => p.id === playerId): its index, 0 when none.
FindPlayer(players, playerId) ==
  IF \E k \in 1..Len(players) : players[k].id = playerId
  THEN CHOOSE k \in 1..Len(players) :
         /\ players[k].id = playerId
         /\ \A j \in 1..(k - 1) : players[j].id # playerId
  ELSE 0

startGame(B, data) ==
  IF data.gameId \notin DOMAIN B.games THEN Response(B, 404)
  ELSE LET game == B.games[data.gameId]
           player == FindPlayer(game.players, data.playerId)
       IN  IF player = 0 \/ ~game.players[player].isHost THEN Response(B, 403)
           ELSE Response([B EXCEPT !.games[data.gameId].gamePhase = "playing",
                                   !.games[data.gameId].currentPlayerIndex = 0,
                                   !.games[data.gameId].hasPlayedCard = FALSE],
                         200)

\* currentPlayer.hand.findIndex(c => c.id === card.id): 0 when none.
FindCard(hand, card) ==
  IF \E k \in 1..Len(hand) : hand[k] = card
  THEN CHOOSE k \in 1..Len(hand) :
         hand[k] = card /\ \A j \in 1..(k - 1) : hand[j] # card
  ELSE 0

Splice(seq, k) == SubSeq(seq, 1, k - 1) \o SubSeq(seq, k + 1, Len(seq))

playCard(B, data) ==
  IF data.gameId \notin DOMAIN B.games THEN Response(B, 404)
  ELSE LET game == B.games[data.gameId]
           current == game.currentPlayerIndex + 1
       IN  IF game.gamePhase # "playing" THEN Response(B, 400)
           ELSE IF current > Len(game.players) THEN Response(B, 400)
           ELSE IF game.players[current].id # data.playerId THEN Response(B, 400)
           ELSE LET cardIndex == FindCard(game.players[current].hand, data.card)
                IN  IF cardIndex = 0 THEN Response(B, 400)
                    ELSE Response(
                      [B EXCEPT !.games[data.gameId].players[current].hand =
                                   Splice(@, cardIndex),
                                !.games[data.gameId].discardPile =
                                   Append(@, data.card),
                                !.games[data.gameId].currentPrompt = data.card,
                                !.games[data.gameId].hasPlayedCard = TRUE], 200)

\* drawCard without the test of hasPlayedCard.
drawCard_Unchecked(B, data) ==
  IF data.gameId \notin DOMAIN B.games THEN Response(B, 404)
  ELSE LET game == B.games[data.gameId]
           current == game.currentPlayerIndex + 1
           newCard == game.deck[Len(game.deck)]
           hand == Append(game.players[current].hand, newCard)
           B1 == [B EXCEPT !.games[data.gameId].deck = SubSeq(@, 1, Len(@) - 1),
                           !.games[data.gameId].players[current].hand = hand,
                           !.running = @ \cup {[k |-> "prompt",
                                                gameId |-> data.gameId]}]
       IN  IF game.gamePhase # "playing" THEN Response(B, 400)
           ELSE IF current > Len(game.players) THEN Response(B, 400)
           ELSE IF game.players[current].id # data.playerId THEN Response(B, 400)
           ELSE IF Len(game.deck) = 0 THEN Response(B, 400)
           ELSE IF checkWinCondition(hand)
           THEN Response([B1 EXCEPT !.games[data.gameId].gamePhase = "finished",
                                    !.games[data.gameId].winner =
                                       game.players[current].id], 200)
           ELSE Response([B1 EXCEPT !.games[data.gameId].currentPlayerIndex =
                                       (@ + 1) % Len(game.players),
                                    !.games[data.gameId].hasPlayedCard = FALSE],
                         200)

drawCard(B, data) ==
  IF data.gameId \notin DOMAIN B.games THEN Response(B, 404)
  ELSE LET game == B.games[data.gameId]
           current == game.currentPlayerIndex + 1
           newCard == game.deck[Len(game.deck)]
           hand == Append(game.players[current].hand, newCard)
           B1 == [B EXCEPT !.games[data.gameId].deck = SubSeq(@, 1, Len(@) - 1),
                           !.games[data.gameId].players[current].hand = hand,
                           !.running = @ \cup {[k |-> "prompt",
                                                gameId |-> data.gameId]}]
       IN  IF game.gamePhase # "playing" THEN Response(B, 400)
           ELSE IF current > Len(game.players) THEN Response(B, 400)
           ELSE IF game.players[current].id # data.playerId THEN Response(B, 400)
           ELSE IF ~game.hasPlayedCard THEN Response(B, 400)
           ELSE IF Len(game.deck) = 0 THEN Response(B, 400)
           ELSE IF checkWinCondition(hand)
           THEN Response([B1 EXCEPT !.games[data.gameId].gamePhase = "finished",
                                    !.games[data.gameId].winner =
                                       game.players[current].id], 200)
           ELSE Response([B1 EXCEPT !.games[data.gameId].currentPlayerIndex =
                                       (@ + 1) % Len(game.players),
                                    !.games[data.gameId].hasPlayedCard = FALSE],
                         200)

\* drawCard's setTimeout callback: the prompt is cleared.
clearPrompt(B, t) ==
  LET B1 == [B EXCEPT !.running = @ \ {t}]
  IN  IF t.gameId \in DOMAIN B.games /\ B.games[t.gameId].currentPrompt # NoPrompt
      THEN [B1 EXCEPT !.games[t.gameId].currentPrompt = NoPrompt]
      ELSE B1

\* ------------------------------------------- the socket game server
\* B.players is the server's map from socket ids to the game and the player
\* object of the socket; B.closed holds the sockets that have disconnected
\* and B.thrown the handlers that threw.  A game carries in born the request
\* that made it, which tells the object a timer holds from a later game of
\* the same id.
server_create_game(B, socket, data, deck) ==
  LET dealt == dealCards(deck, HandSize)
      gameState ==
        [id |-> data.gameId,
         players |-> <<[id |-> data.player.id, isHost |-> data.player.isHost,
                        hand |-> dealt.hand]>>,
         currentPlayerIndex |-> 0,
         deck |-> dealt.deck,
         discardPile |-> <<>>,
         gamePhase |-> "lobby",
         winner |-> NoPlayer,
         currentPrompt |-> NoPrompt,
         born |-> B.steps]
  IN  [B EXCEPT !.games = MapSet(@, data.gameId, gameState),
                !.players = MapSet(@, socket,
                                   [gameId |-> data.gameId,
                                    isHost |-> data.player.isHost])]

server_join_game(B, socket, data) ==
  IF data.gameId \notin DOMAIN B.games THEN B
  ELSE LET game == B.games[data.gameId]
           dealt == dealCards(game.deck, HandSize)
           newPlayer == [id |-> data.player.id, isHost |-> data.player.isHost,
                         hand |-> dealt.hand]
       IN  IF Len(game.players) >= MaxPlayers THEN B
           ELSE [B EXCEPT !.games[data.gameId].deck = dealt.deck,
                          !.games[data.gameId].players = Append(@, newPlayer),
                          !.players = MapSet(@, socket,
                                             [gameId |-> data.gameId,
                                              isHost |-> newPlayer.isHost])]

server_start_game(B, socket, data) ==
  IF data.gameId \notin DOMAIN B.games THEN B
  ELSE IF socket \notin DOMAIN B.players \/ ~B.players[socket].isHost THEN B
  ELSE [B EXCEPT !.games[data.gameId].gamePhase = "playing",
                 !.games[data.gameId].currentPlayerIndex = 0]

\* currentPlayer.id when game.players[game.currentPlayerIndex] is undefined.
TypeError(B, handler) == [B EXCEPT !.thrown = @ \cup {handler}]

server_play_card(B, data) ==
  IF data.gameId \notin DOMAIN B.games THEN B
  ELSE LET game == B.games[data.gameId]
           current == game.currentPlayerIndex + 1
       IN  IF game.gamePhase # "playing" THEN B
           ELSE IF current > Len(game.players) THEN TypeError(B, "play-card")
           ELSE IF game.players[current].id # data.playerId THEN B
           ELSE LET cardIndex == FindCard(game.players[current].hand, data.card)
                IN  IF cardIndex = 0 THEN B
                    ELSE [B EXCEPT !.games[data.gameId].players[current].hand =
                                      Splice(@, cardIndex),
                                   !.games[data.gameId].discardPile =
                                      Append(@, data.card),
                                   !.games[data.gameId].currentPrompt = data.card]

server_draw_card(B, data) ==
  IF data.gameId \notin DOMAIN B.games THEN B
  ELSE LET game == B.games[data.gameId]
           current == game.currentPlayerIndex + 1
           newCard == game.deck[Len(game.deck)]
           hand == Append(game.players[current].hand, newCard)
           B1 == [B EXCEPT !.games[data.gameId].deck = SubSeq(@, 1, Len(@) - 1),
                           !.games[data.gameId].players[current].hand = hand,
                           !.running = @ \cup {[k |-> "prompt",
                                                gameId |-> data.gameId,
                                                born |-> game.born]}]
       IN  IF game.gamePhase # "playing" THEN B
           ELSE IF current > Len(game.players) THEN TypeError(B, "draw-card")
           ELSE IF game.players[current].id # data.playerId THEN B
           ELSE IF Len(game.deck) = 0 THEN B
           ELSE IF checkWinCondition(hand)
           THEN [B1 EXCEPT !.games[data.gameId].gamePhase = "finished",
                           !.games[data.gameId].winner = game.players[current].id]
           ELSE [B1 EXCEPT !.games[data.gameId].currentPlayerIndex =
                              (@ + 1) % Len(game.players)]

\* draw-card's setTimeout callback: the prompt of the game object it holds.
server_clearPrompt(B, t) ==
  LET B1 == [B EXCEPT !.running = @ \ {t}]
  IN  IF t.gameId \in DOMAIN B.games /\ B.games[t.gameId].born = t.born
      THEN [B1 EXCEPT !.games[t.gameId].currentPrompt = NoPrompt]
      ELSE B1

\* game.players.filter(p => p.id !== socket.id)
RECURSIVE Without(_, _)
Without(players, id) ==
  IF players = <<>> THEN <<>>
  ELSE IF Head(players).id = id THEN Without(Tail(players), id)
  ELSE <<Head(players)>> \o Without(Tail(players), id)

\* games.delete(gameId), players.delete(socket.id)
MapDelete(map, key) == [k \in DOMAIN map \ {key} |-> map[k]]

\* The player object a joining socket is given in B.players is the one in
\* game.players: a host made by the transfer is a host there too.
server_disconnect(B, socket) ==
  LET B0 == [B EXCEPT !.closed = @ \cup {socket}]
      B1 == [B0 EXCEPT !.players = MapDelete(@, socket)]
  IN  IF socket \notin DOMAIN B.players THEN B0
      ELSE IF B.players[socket].gameId \notin DOMAIN B.games THEN B1
      ELSE LET gameId == B.players[socket].gameId
               left == Without(B.games[gameId].players, socket)
               hasHost == \E k \in 1..Len(left) : left[k].isHost
           IN  IF Len(left) = 0
               THEN [B1 EXCEPT !.games = MapDelete(@, gameId)]
               ELSE IF hasHost
               THEN [B1 EXCEPT !.games[gameId].players = left]
               ELSE [B1 EXCEPT
                       !.games[gameId].players = [left EXCEPT ![1].isHost = TRUE],
                       !.players = [s \in DOMAIN @ |->
                                      IF s = left[1].id /\ @[s].gameId = gameId
                                      THEN [@[s] EXCEPT !.isHost = TRUE]
                                      ELSE @[s]]]

\* ------------------------------------------------- GameService (Supabase)
\* B.games[gameId] is the row of the game in the table games and its players
\* field the rows of game_players of the game, in the order of joined_at.
\* Every query is one step; a call of joinGame lies in B.running between its
\* queries, with the deck it read and the hand it dealt.
GameService_createGame(B, data, deck) ==
  LET dealt == dealCards(deck, HandSize)
      row == [id |-> data.gameId,
              players |-> <<[id |-> data.player.id, isHost |-> TRUE,
                             hand |-> dealt.hand]>>,
              currentPlayerIndex |-> 0,
              deck |-> dealt.deck,
              discardPile |-> <<>>,
              gamePhase |-> "lobby",
              winner |-> NoPlayer,
              currentPrompt |-> NoPrompt]
  IN  [B EXCEPT !.games = MapSet(@, data.gameId, row)]

\* from('games').select('*').eq('id', gameId).single()
GameService_joinGame_select(B, data) ==
  IF data.gameId \notin DOMAIN B.games THEN B
  ELSE [B EXCEPT !.running = @ \cup
          {[k |-> "joinGame", at |-> "count", gameId |-> data.gameId,
            player |-> data.player, deck |-> B.games[data.gameId].deck,
            hand |-> <<>>]}]

\* The count of game_players and the test of it.
GameService_joinGame_count(B, t) ==
  LET count == IF t.gameId \in DOMAIN B.games
               THEN Len(B.games[t.gameId].players) ELSE 0
  IN  IF count # 0 /\ count >= MaxPlayers
      THEN [B EXCEPT !.running = @ \ {t}]
      ELSE [B EXCEPT !.running = (@ \ {t}) \cup {[t EXCEPT !.at = "update"]}]

\* dealCards on the copy of the deck read by the select, then
\* from('games').update({ deck: deck })
GameService_joinGame_update(B, t) ==
  LET dealt == dealCards(t.deck, HandSize)
      B1 == [B EXCEPT !.running = (@ \ {t}) \cup
                        {[t EXCEPT !.at = "insert", !.deck = dealt.deck,
                                   !.hand = dealt.hand]}]
  IN  IF t.gameId \in DOMAIN B.games
      THEN [B1 EXCEPT !.games[t.gameId].deck = dealt.deck]
      ELSE B1

\* from('game_players').insert(...): refused by the unique index on
\* (game_id, player_id) when the player has a row in the game.
GameService_joinGame_insert(B, t) ==
  LET B1 == [B EXCEPT !.running = @ \ {t}]
  IN  IF t.gameId \notin DOMAIN B.games THEN B1
      ELSE IF FindPlayer(B.games[t.gameId].players, t.player.id) # 0 THEN B1
      ELSE [B1 EXCEPT !.games[t.gameId].players =
                         Append(@, [id |-> t.player.id, isHost |-> FALSE,
                                    hand |-> t.hand])]

\* The call of joinGame a player has in flight.
CallOf(B, player) ==
  CHOOSE t \in B.running : t.k = "joinGame" /\ t.player.id = player.id

InFlight(B, player) ==
  \E t \in B.running : t.k = "joinGame" /\ t.player.id = player.id

\* A call of joinGame that no other call interleaves with.
GameService_joinGame(B, data) ==
  LET B1 == GameService_joinGame_select(B, data)
      B2 == GameService_joinGame_count(B1, CallOf(B1, data.player))
      B3 == GameService_joinGame_update(B2, CallOf(B2, data.player))
  IN  IF ~InFlight(B1, data.player) THEN B1
      ELSE IF ~InFlight(B2, data.player) THEN B2
      ELSE GameService_joinGame_insert(B3, CallOf(B3, data.player))

\* game.players.forEach(player => { player.hand = dealCards(deck, 5) })
RECURSIVE dealAll(_, _, _)
dealAll(players, deck, k) ==
  IF k > Len(players) THEN [players |-> players, deck |-> deck]
  ELSE LET dealt == dealCards(deck, HandSize)
       IN  dealAll([players EXCEPT ![k].hand = dealt.hand], dealt.deck, k + 1)

newGame(B, data, deck) ==
  IF data.gameId \notin DOMAIN B.games THEN Response(B, 404)
  ELSE LET dealt == dealAll(B.games[data.gameId].players, deck, 1)
       IN  Response([B EXCEPT !.games[data.gameId].players = dealt.players,
                              !.games[data.gameId].deck = dealt.deck,
                              !.games[data.gameId].discardPile = <<>>,
                              !.games[data.gameId].gamePhase = "playing",
                              !.games[data.gameId].currentPlayerIndex = 0,
                              !.games[data.gameId].winner = NoPlayer,
                              !.games[data.gameId].currentPrompt = NoPrompt,
                              !.games[data.gameId].hasPlayedCard = FALSE], 200)

\* ================================================================ actions
Others(h) == PeerIds \ {h}
Open(h, p, n) == pcs[h][p][n].conn # "closed"

\* The hook of the pool specification; alice < bob < carol, so it meets both
\* outcomes of the comparison in handleOffer.
PoolHook == "bob"

\* History: useWebRTC lost its session for p to an ICE failure or a rejected
\* description, and nobody has called initiateCall or establishConnections
\* for p since.
Lost(W, h, p, rejected) ==
  IF rejected THEN [W EXCEPT !.hist.lost = @ \cup {<<h, p>>}] ELSE W

\* The UI calls the exported initiateCall.
UiInitiateCall(h, p) ==
  /\ used < MaxEnv
  /\ Becomes(IF impl = "serverless" THEN initiateCall(World, h, p)
             ELSE [useWebRTC_initiateCall(World, h, p)
                     EXCEPT !.hist.lost = @ \ {<<h, p>>}])
  /\ used' = used + 1
  /\ UNCHANGED impl

\* The UI calls the exported establishConnections.
UiEstablishConnections(h, peerIds) ==
  /\ used < MaxEnv
  /\ Becomes(IF impl = "serverless" THEN establishConnections(World, h, peerIds)
             ELSE [useWebRTC_establishConnections(World, h, peerIds)
                     EXCEPT !.hist.lost =
                       @ \ {<<h, peerIds[k]>> : k \in 1..Len(peerIds)}])
  /\ used' = used + 1
  /\ UNCHANGED impl

\* The component calls useWebRTC's exported removePeerConnection.
UiRemovePeerConnection(h, p) ==
  /\ impl = "socket"
  /\ used < MaxEnv
  /\ Becomes(useWebRTC_removePeerConnection(World, h, p))
  /\ used' = used + 1
  /\ UNCHANGED impl

\* The component calls useWebRTC's exported createPeerConnection.
UiCreatePeerConnection(h, p) ==
  /\ impl = "socket"
  /\ used < MaxEnv
  /\ Becomes(useWebRTC_createPeerConnection(World, h, p))
  /\ used' = used + 1
  /\ UNCHANGED impl

\* A 'webrtc-offer', 'webrtc-answer' or 'webrtc-ice-candidate' event from the
\* socket: the listener calls its handler.
SocketEvent(h, type, from, ok) ==
  /\ impl = "socket"
  /\ used < MaxEnv
  /\ LET m == [type |-> type, from |-> from,
               payload |-> Payload(0, ok,
                  IF type = "ice-candidate" THEN used + 1 ELSE 0)]
     IN  Becomes(CASE type = "offer" -> useWebRTC_handleOffer(World, h, m)
                   [] type = "answer" -> useWebRTC_handleAnswer(World, h, m)
                   [] OTHER -> useWebRTC_handleIceCandidate(World, h, m))
  /\ used' = used + 1
  /\ UNCHANGED impl

\* useWebRTC.establishConnections' setTimeout callback.
ConnectTimer(t) ==
  /\ t \in timers /\ t.kind = "connect"
  /\ Becomes(useWebRTC_initiateCalls([World EXCEPT !.timers = @ \ {t}],
                                     t.h, t.peerIds))
  /\ UNCHANGED <<impl, used>>

\* establishConnections' setTimeout callback.
StaggerTimer(t) ==
  /\ t \in timers /\ t.kind = "stagger"
  /\ LET W0 == [World EXCEPT !.timers = @ \ {t}]
     IN  Becomes(IF ~Working(W0, t.h, t.peer) THEN initiateCall(W0, t.h, t.peer)
                 ELSE W0)
  /\ UNCHANGED <<impl, used>>

\* The callback without its test of peerConnections.current.has(peerId).
RetryTimer_Unconditional(t) ==
  /\ t \in timers /\ t.kind = "retry"
  /\ hist.retries[t.h][t.peer] < MaxRetries
  /\ LET W0 == [World EXCEPT !.timers = @ \ {t}]
         W1 == initiateCall(W0, t.h, t.peer)
     IN  Becomes(IF W1.calls # W0.calls
                 THEN [W1 EXCEPT !.hist.retries[t.h][t.peer] = @ + 1]
                 ELSE W1)
  /\ UNCHANGED <<impl, used>>

\* handleConnectionFailure's setTimeout callback.
RetryTimer(t) ==
  /\ t \in timers /\ t.kind = "retry"
  /\ hist.retries[t.h][t.peer] < MaxRetries
  /\ LET W0 == [World EXCEPT !.timers = @ \ {t}]
         W1 == initiateCall(W0, t.h, t.peer)
     IN  Becomes(IF W0.peerConnections[t.h][t.peer] = 0
                 THEN IF W1.calls # W0.calls
                      THEN [W1 EXCEPT !.hist.retries[t.h][t.peer] = @ + 1]
                      ELSE W1
                 ELSE W0)
  /\ UNCHANGED <<impl, used>>

\* The setTimeout callback armed by a 'disconnected' state.
GraceTimer(t) ==
  /\ t \in timers /\ t.kind = "grace"
  /\ LET W0 == [World EXCEPT !.timers = @ \ {t},
                             !.hist.reconnected = @ \ {<<t.h, t.peer, t.pc>>}]
     IN  Becomes(IF W0.pcs[t.h][t.peer][t.pc].conn = "disconnected"
                 THEN [handleConnectionFailure(W0, t.h, t.peer)
                         EXCEPT !.hist.failed = @ \cup {<<t.h, t.peer, t.pc>>}]
                 ELSE W0)
  /\ UNCHANGED <<impl, used>>

\* initiateCall goes on after its awaits.
InitiateCallContinue(t) ==
  /\ t \in calls
  /\ Becomes(IF ~Open(t.h, t.peer, t.pc) THEN initiateCallHangs(World, t)
             ELSE IF impl = "serverless" THEN initiateCallResume(World, t)
             ELSE useWebRTC_initiateCallResume(World, t))
  /\ UNCHANGED <<impl, used>>

\* createOffer or setLocalDescription rejects on the pc of the call (an
\* OperationError; on a closed pc the promise stays pending instead).
InitiateCallRejects(t) ==
  /\ t \in calls
  /\ impl = "serverless"
  /\ Open(t.h, t.peer, t.pc)
  /\ Becomes(initiateCallCatch(World, t))
  /\ UNCHANGED <<impl, used>>

\* A POST arrives at the relay.
RelayPost(m) ==
  /\ m \in net
  /\ Becomes(relayPost(World, m))
  /\ UNCHANGED <<impl, used>>

\* A peer that is not a modelled hook posts a message for h.
EnvPost(h, type, from, ok) ==
  /\ impl = "serverless"
  /\ used < MaxEnv
  /\ signalingData' =
       handlerPOST(signalingData,
                   [type |-> type, gameId |-> GameId, from |-> from, to |-> h,
                    payload |-> Payload(0, ok,
                       IF type = "ice-candidate" THEN used + 1 ELSE 0)])
  /\ used' = used + 1
  /\ UNCHANGED <<impl, peerConnections, connectionAttempts, pendingOffers,
                 isInitiator, connectionStates, establishedConnections,
                 iceCandidateQueue, pendingCandidates, remoteStreams, pcs,
                 timers, calls, chains, net, lifecycle, hist, backend>>

\* A client that is not the hook's posts a message without a payload for h.
EnvPostUndefined(h, type, from) ==
  /\ impl = "serverless"
  /\ used < MaxEnv
  /\ signalingData' =
       handlerPOST(signalingData,
                   [type |-> type, gameId |-> GameId, from |-> from, to |-> h,
                    payload |-> Undefined])
  /\ used' = used + 1
  /\ UNCHANGED <<impl, peerConnections, connectionAttempts, pendingOffers,
                 isInitiator, connectionStates, establishedConnections,
                 iceCandidateQueue, pendingCandidates, remoteStreams, pcs,
                 timers, calls, chains, net, lifecycle, hist, backend>>

\* A tick of the setInterval: the GET is answered.  A tick that finds the
\* queue empty handles nothing and is left out.
PollTick(h) ==
  /\ impl = "serverless"
  /\ lifecycle[h].intervals # {}
  /\ Mailbox(signalingData, h) # <<>>
  /\ Len(chains[h]) < MaxPolls
  /\ Becomes(pollSignalingMessages(World, h))
  /\ UNCHANGED <<impl, used>>

\* m is a candidate that h will pass to addIceCandidate and that is rejected.
CandidateFails(h, m) ==
  /\ impl = "serverless"
  /\ m.type = "ice-candidate" /\ m.from # h
  /\ m.payload.some /\ ~m.payload.ok
  /\ peerConnections[h][m.from] # 0
  /\ pcs[h][m.from][peerConnections[h][m.from]].hasRemote

\* An invocation of the poller hands its next message to handleSignalingMessage.
HandleMessage(h, i) ==
  /\ i \in 1..Len(chains[h])
  /\ chains[h][i].msgs # <<>>
  /\ \/ chains[h][i].wait.k = "none"
     \/ chains[h][i].wait.k = "send" /\ chains[h][i].wait.sent \notin net
  /\ LET m == Head(chains[h][i].msgs)
         first == IF \E o \in hist.sent :
                       o.type = "offer" /\ o.from = h /\ o.to = m.from
                  THEN "glare" ELSE "plain"
         W == handleSignalingMessage(World, h, i)
     IN  Becomes(IF m.type = "offer" /\ m.from \in Hooks /\ hist.handled[h] = "no"
                 THEN [W EXCEPT !.hist.handled[h] = first]
                 ELSE IF CandidateFails(h, m)
                 THEN [W EXCEPT !.hist.dropped = @ \cup {<<h, m.from>>}]
                 ELSE W)
  /\ UNCHANGED <<impl, used>>

OfferContinue(h, i) ==
  /\ i \in 1..Len(chains[h])
  /\ chains[h][i].wait.k = "offer"
  /\ Becomes(IF Open(h, chains[h][i].wait.m.from, chains[h][i].wait.pc)
             THEN IF impl = "serverless" THEN handleOfferResume(World, h, i)
                  ELSE Lost(useWebRTC_handleOfferResume(World, h, i), h,
                            chains[h][i].wait.m.from,
                            ~chains[h][i].wait.m.payload.ok)
             ELSE chainHangs(World, h, i))
  /\ UNCHANGED <<impl, used>>

AnswerContinue(h, i) ==
  /\ i \in 1..Len(chains[h])
  /\ chains[h][i].wait.k = "answer"
  /\ Becomes(IF Open(h, chains[h][i].wait.m.from, chains[h][i].wait.pc)
             THEN IF impl = "serverless" THEN handleAnswerResume(World, h, i)
                  ELSE Lost(useWebRTC_handleAnswerResume(World, h, i), h,
                            chains[h][i].wait.m.from,
                            \/ ~chains[h][i].wait.m.payload.ok
                            \/ pcs[h][chains[h][i].wait.m.from]
                                  [chains[h][i].wait.pc].sig # "have-local-offer")
             ELSE chainHangs(World, h, i))
  /\ UNCHANGED <<impl, used>>

\* ------------------------------------------------ what the browser reports
\* The ICE agent of a pc with a local description gathers a candidate.
IceGather(h, p, n) ==
  /\ n \in 1..Len(pcs[h][p]) /\ Open(h, p, n)
  /\ \/ pcs[h][p][n].sig = "have-local-offer"
     \/ pcs[h][p][n].sig = "stable" /\ pcs[h][p][n].hasRemote
  /\ Cardinality({m \in hist.sent : m.type = "ice-candidate"}) < MaxCand
  /\ Becomes(onicecandidate(World, h, p, n))
  /\ UNCHANGED <<impl, used>>

\* The two ends are wired to each other.
Live(h, p, n) ==
  LET r == pcs[h][p][n].remote
  IN  /\ pcs[h][p][n].hasRemote /\ r # 0
      /\ Open(p, h, r) /\ pcs[p][h][r].hasRemote /\ pcs[p][h][r].remote = n

\* The far end is gone or wired to another pc: the checks can only fail.
Dead(h, p, n) ==
  LET r == pcs[h][p][n].remote
  IN  /\ pcs[h][p][n].hasRemote /\ r # 0
      /\ \/ ~Open(p, h, r)
         \/ pcs[p][h][r].hasRemote /\ pcs[p][h][r].remote # n

\* The far end is a peer that is not a modelled hook.
External(h, p, n) == pcs[h][p][n].hasRemote /\ pcs[h][p][n].remote = 0

SetConn(W, h, p, n, state) == [W EXCEPT !.pcs[h][p][n].conn = state]

\* The connectionstatechange event; useWebRTC's handler only logs.
StateChange(W, h, p, n) ==
  IF impl = "serverless" THEN onconnectionstatechange(W, h, p, n) ELSE W

\* The iceconnectionstatechange event.
IceStateChange(W, h, p, n, state) ==
  IF impl = "serverless" THEN oniceconnectionstatechange(W, h, p, n, state)
  ELSE useWebRTC_oniceconnectionstatechange(W, h, p, n, state)

EnvConnecting(h, p, n) ==
  /\ n \in 1..Len(pcs[h][p]) /\ pcs[h][p][n].conn = "new"
  /\ pcs[h][p][n].hasRemote /\ pcs[h][p][n].sig = "stable"
  /\ Becomes(StateChange(SetConn(World, h, p, n, "connecting"), h, p, n))
  /\ UNCHANGED <<impl, used>>

EnvConnected(h, p, n) ==
  /\ n \in 1..Len(pcs[h][p]) /\ pcs[h][p][n].conn \in {"connecting", "disconnected"}
  /\ \/ External(h, p, n)
     \/ Live(h, p, n) /\ pcs[p][h][pcs[h][p][n].remote].conn \in {"connecting", "connected"}
  /\ LET W == StateChange(SetConn(World, h, p, n, "connected"), h, p, n)
     IN  Becomes([W EXCEPT !.hist.retries[h][p] = 0])
  /\ UNCHANGED <<impl, used>>

\* EnvConnected on a disconnected pc whose grace timer is pending; the
\* history records that the pc has reconnected since the timer was armed.
EnvReconnected(h, p, n) ==
  /\ n \in 1..Len(pcs[h][p]) /\ pcs[h][p][n].conn = "disconnected"
  /\ Timer(h, "grace", p, n, GraceMs) \in timers
  /\ External(h, p, n)
  /\ LET W == StateChange(SetConn(World, h, p, n, "connected"), h, p, n)
     IN  Becomes([W EXCEPT !.hist.retries[h][p] = 0,
                           !.hist.reconnected = @ \cup {<<h, p, n>>}])
  /\ UNCHANGED <<impl, used>>

EnvDisconnected(h, p, n) ==
  /\ n \in 1..Len(pcs[h][p]) /\ pcs[h][p][n].conn = "connected"
  /\ External(h, p, n) \/ Dead(h, p, n)
  /\ Becomes(StateChange(SetConn(World, h, p, n, "disconnected"), h, p, n))
  /\ UNCHANGED <<impl, used>>

\* 'failed': an ICE failure runs oniceconnectionstatechange and then
\* onconnectionstatechange; a DTLS failure runs the latter alone.
failed(W, h, p, n, kind) ==
  LET W0 == SetConn(W, h, p, n, "failed")
      W1 == IF kind = "ice"
            THEN StateChange(IceStateChange(W0, h, p, n, "failed"), h, p, n)
            ELSE StateChange(W0, h, p, n)
  IN  Lost([W1 EXCEPT !.hist.failed = @ \cup {<<h, p, n>>}], h, p,
           impl = "socket" /\ kind = "ice")

EnvFailed(h, p, n, kind) ==
  /\ n \in 1..Len(pcs[h][p])
  /\ pcs[h][p][n].conn \in {"connecting", "connected", "disconnected"}
  /\ External(h, p, n) \/ Dead(h, p, n)
  /\ Becomes(failed(World, h, p, n, kind))
  /\ UNCHANGED <<impl, used>>

\* ------------------------------------------------------------ specification
NoPeers(x) == [h \in Hooks |-> [p \in PeerIds |-> x]]

\* const games = new Map(); const players = new Map(); nothing is running.
NoBackend ==
  [games |-> <<>>, players |-> <<>>, running |-> {}, steps |-> 0,
   closed |-> {}, thrown |-> {}]

InitRtc ==
  /\ peerConnections = NoPeers(0)
  /\ connectionAttempts = NoPeers(0)
  /\ pendingOffers = [h \in Hooks |-> {}]
  /\ isInitiator = NoPeers("none")
  /\ connectionStates = NoPeers("none")
  /\ establishedConnections = [h \in Hooks |-> {}]
  /\ iceCandidateQueue = NoPeers(<<>>)
  /\ pendingCandidates = NoPeers(<<>>)
  /\ remoteStreams = NoPeers(0)
  /\ pcs = NoPeers(<<>>)
  /\ calls = {}
  /\ chains = [h \in Hooks |-> <<>>]
  /\ net = {}
  /\ signalingData = [k \in {} |-> <<>>]
  /\ used = 0
  /\ hist \in {[sent |-> {}, retries |-> NoPeers(0), failed |-> {}, lost |-> {},
               removed |-> [h \in Hooks |-> {}],
               handled |-> [h \in Hooks |-> "no"],
               callers |-> {t.h : t \in timers},
               log |-> <<>>,
               reconnected |-> {},
               dropped |-> {}]}

InitRefs == backend = NoBackend /\ InitRtc

\* A hook that was mounted with its gameId and playerId and a local stream:
\* the polling effect has run once.
Mounted ==
  [gameId |-> TRUE, playerId |-> TRUE, localStream |-> 1, pollingInterval |-> 1,
   intervals |-> {1}, started |-> 1, hasCleanup |-> TRUE, mounted |-> TRUE,
   events |-> 0]

InitWorld == InitRefs /\ lifecycle = [h \in Hooks |-> Mounted]

Init == timers = {} /\ InitWorld /\ impl \in {"serverless", "socket"}

\* The arrays establishConnections is called with: the other players, in
\* the order of the game state.
PeerLists(h) ==
  {<<p>> : p \in Others(h)} \cup
  {<<pq[1], pq[2]>> : pq \in {x \in Others(h) \X Others(h) : StrLess(x[1], x[2])}}

\* One hook of either kind, bob's, with the UI and the other peers as its
\* environment: what they do is bounded by MaxEnv.
Next ==
  \/ \E p \in Others(PoolHook) : UiInitiateCall(PoolHook, p)
  \/ \E l \in PeerLists(PoolHook) : UiEstablishConnections(PoolHook, l)
  \/ \E type \in {"offer", "answer", "ice-candidate"}, from \in Others(PoolHook),
        ok \in BOOLEAN : EnvPost(PoolHook, type, from, ok)
  \/ \E type \in {"offer", "answer", "ice-candidate"}, from \in Others(PoolHook),
        ok \in BOOLEAN : SocketEvent(PoolHook, type, from, ok)
  \/ \E p \in Others(PoolHook) : UiRemovePeerConnection(PoolHook, p)
  \/ \E p \in Others(PoolHook) : UiCreatePeerConnection(PoolHook, p)
  \/ \E t \in timers : StaggerTimer(t)
  \/ \E t \in timers : ConnectTimer(t)
  \/ \E t \in timers : RetryTimer(t)
  \/ \E t \in timers : GraceTimer(t)
  \/ \E t \in calls : InitiateCallContinue(t)
  \/ \E m \in net : RelayPost(m)
  \/ PollTick(PoolHook)
  \/ \E i \in 1..MaxPolls : HandleMessage(PoolHook, i)
  \/ \E i \in 1..MaxPolls : OfferContinue(PoolHook, i)
  \/ \E i \in 1..MaxPolls : AnswerContinue(PoolHook, i)
  \/ \E p \in PeerIds : \E n \in 1..Len(pcs[PoolHook][p]) : EnvConnecting(PoolHook, p, n)
  \/ \E p \in PeerIds : \E n \in 1..Len(pcs[PoolHook][p]) : EnvConnected(PoolHook, p, n)
  \/ \E p \in PeerIds : \E n \in 1..Len(pcs[PoolHook][p]) : EnvDisconnected(PoolHook, p, n)
  \/ \E p \in PeerIds, kind \in {"ice", "dtls"} :
        \E n \in 1..Len(pcs[PoolHook][p]) : EnvFailed(PoolHook, p, n, kind)

Spec == Init /\ [][Next]_vars

\* ------------------------------------------------------------ alice and bob
\* Both run useServerlessWebRTC against the relay; nothing else posts.  The
\* App has called establishConnections([bob]) at alice, and in the glare
\* scenario establishConnections([alice]) at bob too, in the same tick.
InitPair ==
  /\ impl = "serverless"
  /\ \E callers \in {{"alice"}, {"alice", "bob"}} :
       timers = {Timer(h, "stagger", CHOOSE p \in Hooks : p # h, 0, 0) : h \in callers}
  /\ InitWorld

\* A setTimeout of 0 ms runs before any request of the tick has been answered.
TimersDue == \E t \in timers : t.kind = "stagger"

NextPair ==
  \/ \E t \in timers : StaggerTimer(t)
  \/ /\ ~TimersDue
     /\ \/ \E t \in timers : RetryTimer(t)
        \/ \E t \in calls : InitiateCallContinue(t)
        \/ \E m \in net : RelayPost(m)
        \/ \E h \in Hooks : PollTick(h)
        \/ \E h \in Hooks, i \in 1..MaxPolls : HandleMessage(h, i)
        \/ \E h \in Hooks, i \in 1..MaxPolls : OfferContinue(h, i)
        \/ \E h \in Hooks, i \in 1..MaxPolls : AnswerContinue(h, i)
        \/ \E h \in Hooks, p \in Hooks : \E n \in 1..Len(pcs[h][p]) : IceGather(h, p, n)
        \/ \E h \in Hooks, p \in Hooks : \E n \in 1..Len(pcs[h][p]) : EnvConnecting(h, p, n)
        \/ \E h \in Hooks, p \in Hooks : \E n \in 1..Len(pcs[h][p]) : EnvConnected(h, p, n)
        \/ \E h \in Hooks, p \in Hooks, kind \in {"ice", "dtls"} :
              \E n \in 1..Len(pcs[h][p]) : EnvFailed(h, p, n, kind)

SpecPair == InitPair /\ [][NextPair]_vars

\* ------------------------------------------------- alice and a failing peer
\* alice has called establishConnections([bob, carol]).  The clients of bob
\* and carol, which are not modelled hooks here, answer every Offer they
\* poll, and no connection to them ever gets through.
RECURSIVE PostAnswers(_, _, _, _)
PostAnswers(map, p, h, n) ==
  IF n = 0 THEN map
  ELSE PostAnswers(handlerPOST(map, [type |-> "answer", gameId |-> GameId,
                                     from |-> p, to |-> h,
                                     payload |-> Payload(0, TRUE, 0)]),
                   p, h, n - 1)

PeerAnswers(p, h) ==
  /\ Mailbox(signalingData, p) # <<>>
  /\ LET got == handlerGET(signalingData, GameId, p)
         offers == {k \in 1..Len(got.messages) :
                      got.messages[k].type = "offer" /\ got.messages[k].from = h}
     IN  signalingData' = PostAnswers(got.map, p, h, Cardinality(offers))
  /\ UNCHANGED <<impl, peerConnections, connectionAttempts, pendingOffers,
                 isInitiator, connectionStates, establishedConnections,
                 iceCandidateQueue, pendingCandidates, remoteStreams, pcs,
                 timers, calls, chains, net, used, lifecycle, hist, backend>>

InitRetry ==
  /\ impl = "serverless"
  /\ timers = {Timer("alice", "stagger", "bob", 0, 0),
               Timer("alice", "stagger", "carol", 0, StaggerMs)}
  /\ InitWorld

NextRetry ==
  \/ \E t \in timers : StaggerTimer(t)
  \/ \E t \in timers : RetryTimer(t)
  \/ \E t \in calls : InitiateCallContinue(t)
  \/ \E m \in net : RelayPost(m)
  \/ \E p \in Others("alice") : PeerAnswers(p, "alice")
  \/ PollTick("alice")
  \/ \E i \in 1..MaxPolls : HandleMessage("alice", i)
  \/ \E i \in 1..MaxPolls : AnswerContinue("alice", i)
  \/ \E p \in Others("alice") :
        \E n \in 1..Len(pcs["alice"][p]) : EnvConnecting("alice", p, n)
  \/ \E p \in Others("alice"), kind \in {"ice", "dtls"} :
        \E n \in 1..Len(pcs["alice"][p]) : EnvFailed("alice", p, n, kind)

SpecRetry == InitRetry /\ [][NextRetry]_vars

\* ------------------------------------------- alice and peers that go away
\* The client of a peer fetches its batch and is gone before it handles it
\* (the page is left or reloaded): the messages are lost with it.
PeerLoses(p) ==
  /\ Mailbox(signalingData, p) # <<>>
  /\ signalingData' = handlerGET(signalingData, GameId, p).map
  /\ UNCHANGED <<impl, peerConnections, connectionAttempts, pendingOffers,
                 isInitiator, connectionStates, establishedConnections,
                 iceCandidateQueue, pendingCandidates, remoteStreams, pcs,
                 timers, calls, chains, net, used, lifecycle, hist, backend>>

\* The scenario of SpecRetry, with peers that answer an Offer or lose it.
NextLoss ==
  \/ NextRetry
  \/ \E p \in Others("alice") : PeerLoses(p)

SpecLoss == InitRetry /\ [][NextLoss]_vars

\* ------------------------------------------------- the life of one hook
\* bob's component has its local stream before it knows its ids, as the
\* game screen does; then the ids come and go, startLocalStream is called
\* again and the component is unmounted, while other clients post Offers
\* to bob.
Unmounted ==
  [gameId |-> FALSE, playerId |-> FALSE, localStream |-> 1, pollingInterval |-> 0,
   intervals |-> {}, started |-> 0, hasCleanup |-> FALSE, mounted |-> TRUE,
   events |-> 0]

\* The game state or the current player is set or reset.
PropsChange(h, gameId, playerId) ==
  /\ lifecycle[h].mounted /\ lifecycle[h].events < MaxLife
  /\ <<gameId, playerId>> # <<lifecycle[h].gameId, lifecycle[h].playerId>>
  /\ Becomes(commit(World, h, gameId, playerId, lifecycle[h].localStream))
  /\ UNCHANGED <<impl, used>>

\* startLocalStream resolves with a new MediaStream.
StartLocalStream(h) ==
  /\ lifecycle[h].mounted /\ lifecycle[h].events < MaxLife
  /\ Becomes(commit(World, h, lifecycle[h].gameId, lifecycle[h].playerId,
                    lifecycle[h].localStream + 1))
  /\ UNCHANGED <<impl, used>>

Unmount(h) ==
  /\ lifecycle[h].mounted /\ lifecycle[h].events < MaxLife
  /\ Becomes(unmount(World, h))
  /\ UNCHANGED <<impl, used>>

InitLife ==
  /\ impl = "serverless" /\ timers = {} /\ InitRefs
  /\ lifecycle = [h \in Hooks |-> Unmounted]

NextLife ==
  \/ \E gameId \in BOOLEAN, playerId \in BOOLEAN :
        PropsChange(PoolHook, gameId, playerId)
  \/ StartLocalStream(PoolHook)
  \/ Unmount(PoolHook)
  \/ \E from \in Others(PoolHook) : EnvPost(PoolHook, "offer", from, TRUE)
  \/ PollTick(PoolHook)
  \/ \E i \in 1..MaxPolls : HandleMessage(PoolHook, i)
  \/ \E i \in 1..MaxPolls : OfferContinue(PoolHook, i)
  \/ \E m \in net : RelayPost(m)

SpecLife == InitLife /\ [][NextLife]_vars

\* ------------------------------------ alice and peers that call her back
\* alice has called establishConnections([bob]).  bob's client answers her
\* Offers as in SpecRetry and also posts Offers of its own to alice.
InitSupersede ==
  /\ impl = "serverless"
  /\ timers = {Timer("alice", "stagger", "bob", 0, 0)}
  /\ InitWorld

NextSupersede ==
  \/ NextRetry
  \/ EnvPost("alice", "offer", "bob", TRUE)
  \/ \E i \in 1..MaxPolls : OfferContinue("alice", i)

SpecSupersede == InitSupersede /\ [][NextSupersede]_vars

\* --------------------------------------------- alice's hook is torn down
\* The scenario of SpecRetry, in which alice's component gets a new local
\* stream or is unmounted at any moment.
NextCancel ==
  \/ NextRetry
  \/ StartLocalStream("alice")
  \/ Unmount("alice")

SpecCancel == InitRetry /\ [][NextCancel]_vars

\* ------------------------------------------------------ the poller alone
\* bob's hook polls what other clients post, with and without a payload.
InitPoll == impl = "serverless" /\ timers = {} /\ InitWorld

NextPoll ==
  \/ \E type \in {"offer", "answer", "ice-candidate"}, from \in Others(PoolHook),
        ok \in BOOLEAN : EnvPost(PoolHook, type, from, ok)
  \/ \E type \in {"offer", "answer", "ice-candidate"}, from \in Others(PoolHook) :
        EnvPostUndefined(PoolHook, type, from)
  \/ PollTick(PoolHook)
  \/ \E i \in 1..MaxPolls : HandleMessage(PoolHook, i)
  \/ \E i \in 1..MaxPolls : OfferContinue(PoolHook, i)
  \/ \E m \in net : RelayPost(m)

SpecPoll == InitPoll /\ [][NextPoll]_vars

\* --------------------------------------------------- calls that are crossed
\* bob's hook calls other clients while their Offers come in; createOffer and
\* setLocalDescription may reject.
NextCall ==
  \/ \E p \in Others(PoolHook) : UiInitiateCall(PoolHook, p)
  \/ \E from \in Others(PoolHook) : EnvPost(PoolHook, "offer", from, TRUE)
  \/ PollTick(PoolHook)
  \/ \E i \in 1..MaxPolls : HandleMessage(PoolHook, i)
  \/ \E i \in 1..MaxPolls : OfferContinue(PoolHook, i)
  \/ \E m \in net : RelayPost(m)
  \/ \E t \in calls : InitiateCallContinue(t)
  \/ \E t \in calls : InitiateCallRejects(t)

SpecCall == InitPoll /\ [][NextCall]_vars

\* ------------------------------------------------- connections that blip
\* bob's hook answers the Offers of other clients; the connections come up,
\* drop and come back.
NextGrace ==
  \/ \E from \in Others(PoolHook) : EnvPost(PoolHook, "offer", from, TRUE)
  \/ PollTick(PoolHook)
  \/ \E i \in 1..MaxPolls : HandleMessage(PoolHook, i)
  \/ \E i \in 1..MaxPolls : OfferContinue(PoolHook, i)
  \/ \E m \in net : RelayPost(m)
  \/ \E t \in timers : GraceTimer(t)
  \/ \E p \in PeerIds : \E n \in 1..Len(pcs[PoolHook][p]) :
        EnvConnecting(PoolHook, p, n)
  \/ \E p \in PeerIds : \E n \in 1..Len(pcs[PoolHook][p]) :
        pcs[PoolHook][p][n].conn = "connecting" /\ EnvConnected(PoolHook, p, n)
  \/ \E p \in PeerIds : \E n \in 1..Len(pcs[PoolHook][p]) :
        EnvReconnected(PoolHook, p, n)
  \/ \E p \in PeerIds : \E n \in 1..Len(pcs[PoolHook][p]) :
        EnvDisconnected(PoolHook, p, n)

SpecGrace == InitPoll /\ [][NextGrace]_vars

\* ------------------------------------------------ the serverless game API
\* The clients of one game: alice creates it, bob and carol join.  Every
\* request, accepted or not, is one step; the shuffles are those of Shuffles.
Host == [id |-> "alice", isHost |-> TRUE]
Guests == {[id |-> "bob", isHost |-> FALSE], [id |-> "carol", isHost |-> FALSE]}

Requested(r) ==
  /\ backend.steps < MaxRequests
  /\ backend' = [r.backend EXCEPT !.steps = @ + 1]
  /\ UNCHANGED rtcVars

CreateGame(player, deck) ==
  Requested(createGame(backend, [gameId |-> GameId, player |-> player], deck))

JoinGame(player) ==
  Requested(joinGame(backend, [gameId |-> GameId, player |-> player]))

StartGame(playerId) ==
  Requested(startGame(backend, [gameId |-> GameId, playerId |-> playerId]))

PlayCard(playerId, card) ==
  Requested(playCard(backend, [gameId |-> GameId, playerId |-> playerId,
                               card |-> card]))

DrawCard(playerId) ==
  Requested(drawCard(backend, [gameId |-> GameId, playerId |-> playerId]))

NewGame(deck) ==
  Requested(newGame(backend, [gameId |-> GameId], deck))

PromptTimer(t) ==
  /\ t \in backend.running /\ t.k = "prompt"
  /\ backend' = clearPrompt(backend, t)
  /\ UNCHANGED rtcVars

\* The cards a client asks to play: those of its hand, and one it may not hold.
Playable(playerId) ==
  IF GameId \notin DOMAIN backend.games THEN {0}
  ELSE LET players == backend.games[GameId].players
       IN  {0} \cup UNION {{players[k].hand[i] : i \in 1..Len(players[k].hand)} :
                             k \in {j \in 1..Len(players) :
                                      players[j].id = playerId}}

InitGame == impl = "serverless" /\ timers = {} /\ InitWorld

NextGame ==
  \/ \E deck \in Shuffles : CreateGame(Host, deck)
  \/ \E player \in Guests : JoinGame(player)
  \/ \E playerId \in PeerIds : StartGame(playerId)
  \/ \E playerId \in PeerIds : \E card \in Playable(playerId) :
        PlayCard(playerId, card)
  \/ \E playerId \in PeerIds : DrawCard(playerId)
  \/ \E deck \in Shuffles : NewGame(deck)
  \/ \E t \in backend.running : PromptTimer(t)

SpecGame == InitGame /\ [][NextGame]_vars

\* ------------------------------------------------- the socket game server
\* Each client is one socket whose id is its player's id, and alice's makes
\* the game; a socket that has disconnected sends nothing more, and the
\* server handles nothing after a handler has thrown.
Handled(B) ==
  /\ backend.steps < MaxRequests
  /\ backend.thrown = {}
  /\ backend' = [B EXCEPT !.steps = @ + 1]
  /\ UNCHANGED rtcVars

Sockets == PeerIds \ backend.closed

ServerCreateGame(socket, deck) ==
  Handled(server_create_game(backend, socket,
            [gameId |-> GameId, player |-> [id |-> socket, isHost |-> TRUE]],
            deck))

ServerJoinGame(socket) ==
  Handled(server_join_game(backend, socket,
            [gameId |-> GameId, player |-> [id |-> socket, isHost |-> FALSE]]))

ServerStartGame(socket) ==
  Handled(server_start_game(backend, socket, [gameId |-> GameId]))

ServerPlayCard(socket, card) ==
  Handled(server_play_card(backend,
            [gameId |-> GameId, playerId |-> socket, card |-> card]))

ServerDrawCard(socket) ==
  Handled(server_draw_card(backend, [gameId |-> GameId, playerId |-> socket]))

ServerDisconnect(socket) ==
  Handled(server_disconnect(backend, socket))

ServerPromptTimer(t) ==
  /\ t \in backend.running /\ t.k = "prompt"
  /\ backend.thrown = {}
  /\ backend' = server_clearPrompt(backend, t)
  /\ UNCHANGED rtcVars

InitServer == impl = "socket" /\ timers = {} /\ InitWorld

NextServer ==
  \/ \E socket \in Sockets \cap {Host.id} : \E deck \in Shuffles :
        ServerCreateGame(socket, deck)
  \/ \E socket \in Sockets : ServerJoinGame(socket)
  \/ \E socket \in Sockets : ServerStartGame(socket)
  \/ \E socket \in Sockets : \E card \in Playable(socket) :
        ServerPlayCard(socket, card)
  \/ \E socket \in Sockets : ServerDrawCard(socket)
  \/ \E socket \in Sockets : ServerDisconnect(socket)
  \/ \E t \in backend.running : ServerPromptTimer(t)

SpecServer == InitServer /\ [][NextServer]_vars

\* ------------------------------------------------- GameService (Supabase)
\* A game in the lobby that alice made and whose first players joined one
\* after the other; bob and carol then join at any moments, the queries of
\* their calls interleaved.
Seated == <<"dave", "erin", "frank", "grace", "heidi", "ivan">>

RECURSIVE Lobby(_, _)
Lobby(n, deck) ==
  IF n = 0
  THEN GameService_createGame(NoBackend, [gameId |-> GameId, player |-> Host],
                              deck)
  ELSE GameService_joinGame(Lobby(n - 1, deck),
         [gameId |-> GameId, player |-> [id |-> Seated[n], isHost |-> FALSE]])

GameServiceJoinGame(player) ==
  /\ ~InFlight(backend, player)
  /\ Requested(Response(
        GameService_joinGame_select(backend,
          [gameId |-> GameId, player |-> player]), 200))

JoinGameCount(t) ==
  /\ t \in backend.running /\ t.k = "joinGame" /\ t.at = "count"
  /\ backend' = GameService_joinGame_count(backend, t)
  /\ UNCHANGED rtcVars

JoinGameUpdate(t) ==
  /\ t \in backend.running /\ t.k = "joinGame" /\ t.at = "update"
  /\ backend' = GameService_joinGame_update(backend, t)
  /\ UNCHANGED rtcVars

JoinGameInsert(t) ==
  /\ t \in backend.running /\ t.k = "joinGame" /\ t.at = "insert"
  /\ backend' = GameService_joinGame_insert(backend, t)
  /\ UNCHANGED rtcVars

InitJoin ==
  /\ impl = "serverless" /\ timers = {} /\ InitRtc
  /\ lifecycle = [h \in Hooks |-> Mounted]
  /\ backend \in {Lobby(n, deck) : n \in 0..Len(Seated), deck \in Shuffles}

NextJoin ==
  \/ \E player \in Guests : GameServiceJoinGame(player)
  \/ \E t \in backend.running : JoinGameCount(t)
  \/ \E t \in backend.running : JoinGameUpdate(t)
  \/ \E t \in backend.running : JoinGameInsert(t)

SpecJoin == InitJoin /\ [][NextJoin]_vars

\* -------------------------------------------------------- the turn timer
\* The turn timer of the current player's client runs out, at any moment of
\* the turn: handleTurnExpired asks for a card when the deck it sees is not
\* empty.
TurnExpired ==
  /\ GameId \in DOMAIN backend.games
  /\ backend.games[GameId].gamePhase = "playing"
  /\ backend.games[GameId].currentPlayerIndex < Len(backend.games[GameId].players)
  /\ Len(backend.games[GameId].deck) > 0
  /\ Requested(drawCard(backend,
        [gameId |-> GameId,
         playerId |-> backend.games[GameId].players[
                        backend.games[GameId].currentPlayerIndex + 1].id]))

\* The players let their turns run out: every draw is the timer's.
NextTurn ==
  \/ \E deck \in Shuffles : CreateGame(Host, deck)
  \/ \E player \in Guests : JoinGame(player)
  \/ \E playerId \in PeerIds : StartGame(playerId)
  \/ \E playerId \in PeerIds : \E card \in Playable(playerId) :
        PlayCard(playerId, card)
  \/ TurnExpired
  \/ \E t \in backend.running : PromptTimer(t)

SpecTurn == InitGame /\ [][NextTurn]_vars

\* ------------------------------------------------------- the relay alone
\* The relay serves the requests of two games with the same players, in any
\* order; hist.log records each request with the messages it carried.
GameIds == {GameId, "GAME2"}
RelayPeers == {"alice", "bob"}

RelayPOST(gameId, type, from, to) ==
  /\ Len(hist.log) < MaxLog
  /\ LET data == [type |-> type, gameId |-> gameId, from |-> from, to |-> to,
                  payload |-> Payload(0, TRUE, 0)]
     IN  /\ signalingData' = handlerPOST(signalingData, data)
         /\ hist' = [hist EXCEPT !.log =
               Append(@, [method |-> "POST", gameId |-> gameId, id |-> to,
                          messages |-> <<[type |-> type, from |-> from,
                                          payload |-> data.payload]>>])]
  /\ UNCHANGED <<impl, peerConnections, connectionAttempts, pendingOffers,
                 isInitiator, connectionStates, establishedConnections,
                 iceCandidateQueue, pendingCandidates, remoteStreams, pcs,
                 timers, calls, chains, net, used, lifecycle, backend>>

RelayGET(gameId, playerId) ==
  /\ Len(hist.log) < MaxLog
  /\ LET got == handlerGET(signalingData, gameId, playerId)
     IN  /\ signalingData' = got.map
         /\ hist' = [hist EXCEPT !.log =
               Append(@, [method |-> "GET", gameId |-> gameId, id |-> playerId,
                          messages |-> got.messages])]
  /\ UNCHANGED <<impl, peerConnections, connectionAttempts, pendingOffers,
                 isInitiator, connectionStates, establishedConnections,
                 iceCandidateQueue, pendingCandidates, remoteStreams, pcs,
                 timers, calls, chains, net, used, lifecycle, backend>>

InitRelay == impl = "serverless" /\ timers = {} /\ InitWorld

NextRelay ==
  \/ \E gameId \in GameIds, type \in {"offer", "answer"}, from \in RelayPeers :
        \E to \in RelayPeers \ {from} : RelayPOST(gameId, type, from, to)
  \/ \E gameId \in GameIds, playerId \in RelayPeers : RelayGET(gameId, playerId)

SpecRelay == InitRelay /\ [][NextRelay]_vars

\* ================================================================== claims
IsPrefix(s, t) == Len(s) <= Len(t) /\ SubSeq(t, 1, Len(s)) = s
Accepted(cand) == cand.ok

\* All that a hook keeps about one peer.
PeerState(h, y) ==
  [pc |-> peerConnections[h][y],
   sessions |-> pcs[h][y],
   role |-> isInitiator[h][y],
   pending |-> y \in pendingOffers[h],
   attempts |-> connectionAttempts[h][y],
   queue |-> iceCandidateQueue[h][y],
   candidates |-> pendingCandidates[h][y],
   stream |-> remoteStreams[h][y],
   state |-> connectionStates[h][y],
   established |-> y \in establishedConnections[h]]

\* C1: in both hooks, of the sessions a hook has created for a peer only the
\* newest can be open, and an open one is the pool's entry for that peer:
\* every earlier session was closed before or when the next was installed.
C1_OneOpenSession ==
  \A h \in Hooks, p \in PeerIds : \A n \in 1..Len(pcs[h][p]) :
    Open(h, p, n) => n = Len(pcs[h][p]) /\ peerConnections[h][p] = n

\* A second session for a peer is open, after negotiation began on it.
C1_Witness ==
  \E h \in Hooks, p \in PeerIds :
    /\ Len(pcs[h][p]) >= 2
    /\ Open(h, p, Len(pcs[h][p]))
    /\ pcs[h][p][Len(pcs[h][p])].sig = "have-local-offer"

\* C6: in useServerlessWebRTC, once the remote description of a session is
\* set, the candidates that arrived for it before that have all been applied
\* to it, in their order of arrival and ahead of any later one.
C6_EarlyCandidatesApplied ==
  impl = "serverless" =>
    \A h \in Hooks, p \in PeerIds : \A n \in 1..Len(pcs[h][p]) :
      Open(h, p, n) /\ pcs[h][p][n].hasRemote =>
        IsPrefix(SelectSeq(pcs[h][p][n].early, Accepted), pcs[h][p][n].applied)

\* C8: in useServerlessWebRTC, a step in which the connection of a session
\* held as Responder fails, or is found still disconnected by the grace
\* timer, removes the session, arms no retry timer for the peer, starts no
\* call to it and sends it no Offer.
C8_ResponderNeverRetries ==
  [][\A h \in Hooks, p \in PeerIds :
       /\ impl = "serverless"
       /\ isInitiator[h][p] = "false"
       /\ \E n \in 1..Len(pcs[h][p]) :
            <<h, p, n>> \in hist.failed' \ hist.failed
       => /\ peerConnections'[h][p] = 0
          /\ ~\E t \in timers' \ timers : t.h = h /\ t.peer = p
          /\ ~\E c \in calls' \ calls : c.h = h /\ c.peer = p
          /\ ~\E m \in hist.sent' \ hist.sent : m.from = h /\ m.to = p]_vars

\* A Responder session has failed and is closed.
C8_Witness ==
  /\ impl = "serverless"
  /\ \E h \in Hooks, p \in PeerIds : \E n \in 1..Len(pcs[h][p]) :
       /\ <<h, p, n>> \in hist.failed
       /\ ~pcs[h][p][n].init
       /\ ~Open(h, p, n)
       /\ peerConnections[h][p] = 0

\* C9: in both hooks, a step that removes peer X's session from the pool (a
\* failed connection, a rejected description, a removal) changes nothing of
\* what the hook keeps about any other peer Y.
C9_Isolation ==
  [][\A h \in Hooks, x \in PeerIds :
       peerConnections[h][x] # 0 /\ peerConnections'[h][x] = 0
       => \A y \in PeerIds \ {x} : PeerState(h, y)' = PeerState(h, y)]_vars

\* X's session has failed and been removed while Y has a session with a
\* pending offer.
C9_Witness ==
  \E h \in Hooks, x \in PeerIds, y \in PeerIds :
    /\ x # y
    /\ \E n \in 1..Len(pcs[h][x]) : <<h, x, n>> \in hist.failed
    /\ peerConnections[h][x] = 0
    /\ peerConnections[h][y] # 0
    /\ y \in pendingOffers[h]

\* C10: in useServerlessWebRTC, when the session of a peer was removed while
\* it was negotiating, handling a further message from that peer creates no
\* session and no candidate-queue entry and sends nothing.
C10_LateMessagesDropped ==
  [][\A h \in Hooks, i \in 1..MaxPolls :
       /\ HandleMessage(h, i)
       /\ Head(chains[h][i].msgs).from \in hist.removed[h]
       => LET from == Head(chains[h][i].msgs).from
          IN  /\ peerConnections'[h][from] = 0
              /\ iceCandidateQueue'[h][from] = iceCandidateQueue[h][from]
              /\ net' = net]_vars


\* C11: in useServerlessWebRTC, remoteStreams has an entry for a peer only
\* while the pool's session for that peer is connected, and the entry is the
\* stream of that session.
C11_SnapshotOnlyConnected ==
  impl = "serverless" =>
    \A h \in Hooks, p \in PeerIds :
      remoteStreams[h][p] # 0 =>
        /\ peerConnections[h][p] = remoteStreams[h][p]
        /\ pcs[h][p][remoteStreams[h][p]].conn = "connected"

\* C12: in useServerlessWebRTC, a call of initiateCall for a peer, by the UI
\* or by the timer of establishConnections, while the pool holds a session
\* for that peer that is negotiating (an Initiator that has sent its Offer,
\* a Responder that has answered) or connected, leaves the peer's sessions as
\* they are, starts no call and sends nothing.
C12_InitiateCallGuarded ==
  [][\A h \in Hooks, p \in PeerIds :
       /\ impl = "serverless"
       /\ peerConnections[h][p] # 0
       /\ LET pc == pcs[h][p][peerConnections[h][p]]
          IN  /\ pc.conn \in {"new", "connecting", "connected"}
              /\ \/ pc.init /\ pc.sig = "have-local-offer"
                 \/ ~pc.init /\ pc.hasRemote /\ pc.sig = "stable"
                 \/ pc.conn = "connected"
       /\ \/ UiInitiateCall(h, p)
          \/ \E t \in timers : t.h = h /\ t.peer = p /\ StaggerTimer(t)
       => /\ pcs'[h][p] = pcs[h][p]
          /\ peerConnections'[h][p] = peerConnections[h][p]
          /\ calls' = calls
          /\ net' = net]_vars

\* The step in which hook h takes up an Offer from p while p is in its
\* pendingOffers and it has no connecting or connected pc for p.
\* The lexicographic order of the peer ids, written out.
IdLess(a, b) ==
  <<a, b>> \in {<<"alice", "bob">>, <<"alice", "carol">>, <<"bob", "carol">>}

GlareOffer(h, p) ==
  /\ impl = "serverless"
  /\ p \in pendingOffers[h]
  /\ ~Working(World, h, p)
  /\ \E i \in 1..MaxPolls :
       /\ HandleMessage(h, i)
       /\ Head(chains[h][i].msgs).type = "offer"
       /\ Head(chains[h][i].msgs).from = p

Ignores(h, p) ==
  /\ isInitiator[h][p] = "true" /\ isInitiator'[h][p] = "true"
  /\ pcs'[h][p] = pcs[h][p]
  /\ peerConnections'[h][p] = peerConnections[h][p]

Yields(h, p) ==
  /\ isInitiator'[h][p] = "false"
  /\ peerConnections'[h][p] = Len(pcs[h][p]) + 1
  /\ \A n \in 1..Len(pcs[h][p]) : pcs'[h][p][n].conn = "closed"

\* C13 as stated: under glare the side with the smaller id yields and becomes
\* Responder, the side with the larger id ignores the Offer and stays Initiator.
C13_SmallerYields ==
  [][\A h \in Hooks, p \in PeerIds :
       GlareOffer(h, p) =>
         IF IdLess(h, p) THEN Yields(h, p) ELSE Ignores(h, p)]_vars

\* C13, amended: under glare the side with the smaller id ignores the Offer
\* and stays Initiator, the side with the larger id closes its session and
\* becomes Responder.
C13_SmallerStaysInitiator ==
  [][\A h \in Hooks, p \in PeerIds :
       GlareOffer(h, p) =>
         IF IdLess(h, p) THEN Ignores(h, p) ELSE Yields(h, p)]_vars

\* The hook with the larger id has given up its Initiator session for a
\* Responder one while its own offer was pending.
C13_Witness ==
  \E h \in Hooks, p \in PeerIds :
    /\ impl = "serverless"
    /\ IdLess(p, h)
    /\ p \in pendingOffers[h]
    /\ Len(pcs[h][p]) = 2
    /\ pcs[h][p][1].init /\ ~Open(h, p, 1)
    /\ ~pcs[h][p][2].init /\ Open(h, p, 2)

\* The pool's session for m.from came out of a message equal to m: an Offer
\* that was applied and answered, an Answer that was applied.
AlreadyHandled(h, m) ==
  /\ m.type \in {"offer", "answer"}
  /\ m.payload.ok
  /\ peerConnections[h][m.from] # 0
  /\ LET pc == pcs[h][m.from][peerConnections[h][m.from]]
     IN  /\ pc.hasRemote /\ pc.remote = m.payload.src /\ pc.sig = "stable"
         /\ pc.init = (m.type = "answer")

\* C14: in useServerlessWebRTC, handling a second copy of an Offer or Answer
\* that has been handled leaves the sender's sessions, role and pending-offer
\* mark as they are and sends nothing.
C14_DuplicateIsNoOp ==
  [][\A h \in Hooks, i \in 1..MaxPolls :
       /\ impl = "serverless"
       /\ HandleMessage(h, i)
       /\ AlreadyHandled(h, Head(chains[h][i].msgs))
       => LET p == Head(chains[h][i].msgs).from
          IN  /\ pcs'[h][p] = pcs[h][p]
              /\ peerConnections'[h][p] = peerConnections[h][p]
              /\ isInitiator'[h][p] = isInitiator[h][p]
              /\ (p \in pendingOffers'[h]) = (p \in pendingOffers[h])
              /\ net' = net]_vars

\* Invocation c of the poller is suspended inside the handler of a message
\* from p: at setRemoteDescription, or at the POST of the Answer.
InProgress(c, p) ==
  \/ c.wait.k \in {"offer", "answer"} /\ c.wait.m.from = p
  \/ c.wait.k = "send" /\ c.wait.sent.to = p

\* C15: in useServerlessWebRTC, the handling of a message from a peer starts
\* only when no invocation of the poller that fetched earlier is still inside
\* the handler of a message from that peer.
C15_OneAtATimePerPeer ==
  [][\A h \in Hooks, i \in 1..MaxPolls :
       impl = "serverless" /\ HandleMessage(h, i)
       => \A j \in 1..(i - 1) :
            ~InProgress(chains[h][j], Head(chains[h][i].msgs).from)]_vars

\* h is the Initiator towards p and waits for the Answer to its Offer.
AwaitsAnswer(h, p) ==
  LET n == peerConnections[h][p]
  IN  /\ n # 0 /\ isInitiator[h][p] = "true"
      /\ pcs[h][p][n].sig = "have-local-offer"
      /\ [type |-> "offer", from |-> h, to |-> p, payload |-> Payload(n, TRUE, 0)]
            \in hist.sent

\* C19: when alice's hook has come to rest with no timer armed, so that
\* nothing happens any more unless a peer posts, alice does not wait for an
\* Answer and no pending-offer mark keeps initiateCall from sending an Offer.
C19_UnansweredOfferRecovers ==
  timers = {} /\ ~ENABLED NextLoss
  => \A p \in Others("alice") :
       /\ ~AwaitsAnswer("alice", p)
       /\ p \notin pendingOffers["alice"]

\* C27: in useServerlessWebRTC, the step in which a session for p reports
\* connected leaves p with no attempt count and no pending-offer mark.
C27_ConnectedResets ==
  [][\A h \in Hooks, p \in PeerIds : \A n \in 1..Len(pcs[h][p]) :
       /\ impl = "serverless"
       /\ pcs[h][p][n].conn \in {"connecting", "disconnected"}
       /\ EnvConnected(h, p, n)
       => /\ connectionAttempts'[h][p] = 0
          /\ p \notin pendingOffers'[h]]_vars

\* h sent p an Offer, gave its Initiator session up for p's Offer with the
\* mark still set, and the Responder session has reported connected.
C27_Witness ==
  \E h \in Hooks, p \in PeerIds :
    /\ impl = "serverless"
    /\ \E m \in hist.sent : m.type = "offer" /\ m.from = h /\ m.to = p
    /\ Len(pcs[h][p]) = 2 /\ pcs[h][p][1].init
    /\ <<h, p, 1>> \notin hist.failed
    /\ peerConnections[h][p] = 2 /\ isInitiator[h][p] = "false"
    /\ pcs[h][p][2].conn = "connected"
    /\ connectionStates[h][p] = "connected"
    /\ p \notin pendingOffers[h]

\* C26: in useServerlessWebRTC, the step that hands addIceCandidate a
\* candidate from p which it rejects changes nothing of what the hook keeps
\* about p, the candidate is applied nowhere, and the invocation goes on with
\* the messages that follow in its batch.
C26_CandidateFailureNonFatal ==
  [][\A h \in Hooks, p \in PeerIds, i \in 1..MaxPolls :
       /\ i \in 1..Len(chains[h]) /\ chains[h][i].msgs # <<>>
       /\ Head(chains[h][i].msgs).from = p
       /\ CandidateFails(h, Head(chains[h][i].msgs))
       /\ HandleMessage(h, i)
       => /\ PeerState(h, p)' = PeerState(h, p)
          /\ Len(chains[h][i].msgs) > 1 =>
               chains'[h][i] = [msgs |-> Tail(chains[h][i].msgs), wait |-> Idle]]_vars

\* A candidate from p was rejected and p's session is still the pool's open
\* session, its remote description set.
C26_Witness ==
  \E h \in Hooks, p \in PeerIds :
    /\ <<h, p>> \in hist.dropped
    /\ peerConnections[h][p] # 0
    /\ Open(h, p, peerConnections[h][p])
    /\ pcs[h][p][peerConnections[h][p]].hasRemote

\* C25: in useServerlessWebRTC, a peer has an entry in iceCandidateQueue only
\* while the pool has a session for it whose remote description is not set.
C25_QueueOnlyBeforeRemote ==
  impl = "serverless" =>
    \A h \in Hooks, p \in PeerIds :
      iceCandidateQueue[h][p] # <<>> =>
        /\ peerConnections[h][p] # 0
        /\ ~pcs[h][p][peerConnections[h][p]].hasRemote

\* Invocation i of h's poller is about to learn that the description of an
\* Offer or an Answer from p was rejected on a pc that is still open.
Rejects(h, i, p) ==
  /\ impl = "serverless"
  /\ i \in 1..Len(chains[h])
  /\ chains[h][i].wait.k \in {"offer", "answer"}
  /\ chains[h][i].wait.m.from = p
  /\ Open(h, p, chains[h][i].wait.pc)
  /\ \/ ~chains[h][i].wait.m.payload.ok
     \/ /\ chains[h][i].wait.k = "answer"
        /\ pcs[h][p][chains[h][i].wait.pc].sig # "have-local-offer"

\* C24: in useServerlessWebRTC, the step in which handleOffer or handleAnswer
\* catches a rejected description from p closes every session for p, leaves
\* no entry, mark, count, role, queue or stream for p, and arms no timer,
\* starts no call and sends nothing.
C24_RejectedReleasesPeer ==
  [][\A h \in Hooks, p \in PeerIds, i \in 1..MaxPolls :
       /\ Rejects(h, i, p)
       /\ OfferContinue(h, i) \/ AnswerContinue(h, i)
       => /\ \A n \in 1..Len(pcs'[h][p]) : pcs'[h][p][n].conn = "closed"
          /\ peerConnections'[h][p] = 0
          /\ p \notin pendingOffers'[h]
          /\ connectionAttempts'[h][p] = 0
          /\ isInitiator'[h][p] = "none"
          /\ iceCandidateQueue'[h][p] = <<>>
          /\ remoteStreams'[h][p] = 0
          /\ timers' = timers /\ calls' = calls /\ net' = net]_vars

\* A session for p was removed though no connection of it ever failed: a
\* description was rejected.
C24_Witness ==
  \E h \in Hooks, p \in PeerIds :
    /\ impl = "serverless"
    /\ p \in hist.removed[h]
    /\ peerConnections[h][p] = 0
    /\ Len(pcs[h][p]) >= 1
    /\ \A n \in 1..Len(pcs[h][p]) : <<h, p, n>> \notin hist.failed

\* C23: in useServerlessWebRTC, a retry timer that fires while the pool has
\* a session for its peer leaves the peer's sessions as they are and starts
\* no Offer.
C23_RetrySuperseded ==
  [][\A t \in timers :
       RetryTimer(t) /\ peerConnections[t.h][t.peer] # 0
       => /\ peerConnections'[t.h][t.peer] = peerConnections[t.h][t.peer]
          /\ pcs'[t.h][t.peer] = pcs[t.h][t.peer]
          /\ isInitiator'[t.h][t.peer] = isInitiator[t.h][t.peer]
          /\ calls' = calls /\ net' = net]_vars

\* alice's Initiator session for a peer failed, an Offer of the peer made a
\* Responder session during the backoff, and the retry timer is gone: it
\* fired when that session was there.
C23_Witness ==
  \E p \in Others("alice") :
    /\ Len(pcs["alice"][p]) = 2
    /\ pcs["alice"][p][1].init /\ <<"alice", p, 1>> \in hist.failed
    /\ ~pcs["alice"][p][2].init /\ peerConnections["alice"][p] = 2
    /\ Open("alice", p, 2) /\ pcs["alice"][p][2].hasRemote
    /\ \A t \in timers : ~(t.kind = "retry" /\ t.peer = p)

\* C22: in useServerlessWebRTC, the oldest grace timer of a session that has
\* reported connected since the timer was armed closes no session and arms
\* no retry when it fires, whatever the session's state is then.
C22_GraceTimerCancelled ==
  [][\A t \in timers :
       /\ GraceTimer(t)
       /\ <<t.h, t.peer, t.pc>> \in hist.reconnected
       => /\ peerConnections'[t.h][t.peer] = peerConnections[t.h][t.peer]
          /\ pcs'[t.h][t.peer] = pcs[t.h][t.peer]
          /\ timers' = timers \ {t}]_vars

\* C21: in useServerlessWebRTC, a retry timer or a stagger timer that fires
\* after the hook was unmounted, and so after the cleanup closed every
\* session, creates no session and starts no Offer.
C21_TimersCancelled ==
  [][\A t \in timers :
       /\ ~lifecycle[t.h].mounted
       /\ StaggerTimer(t) \/ RetryTimer(t)
       => /\ peerConnections'[t.h][t.peer] = peerConnections[t.h][t.peer]
          /\ pcs'[t.h][t.peer] = pcs[t.h][t.peer]
          /\ calls' = calls]_vars

\* C20: the polling interval of a hook runs exactly while the hook knows its
\* gameId and its playerId and is mounted, whatever became of localStream.
C20_PollerRunsWhileKnown ==
  \A h \in Hooks :
    lifecycle[h].intervals # {}
    <=> lifecycle[h].gameId /\ lifecycle[h].playerId /\ lifecycle[h].mounted

\* C18: in useServerlessWebRTC, whatever becomes of the handling of a
\* fetched message, the invocation of the poller goes on with the messages
\* that follow it in the batch.
C18_BatchGoesOn ==
  [][\A h \in Hooks, i \in 1..MaxPolls :
       /\ impl = "serverless"
       /\ HandleMessage(h, i)
       /\ Len(chains[h][i].msgs) > 1
       => /\ Len(chains'[h]) = Len(chains[h])
          /\ chains'[h][i].msgs = Tail(chains[h][i].msgs)]_vars

\* ------------------------------------------------------------- the relay
\* The messages the requests lo..hi of the log carried for (gameId, id).
RECURSIVE Carried(_, _, _, _, _, _)
Carried(log, method, gameId, id, lo, hi) ==
  IF lo > hi THEN <<>>
  ELSE (IF log[lo].method = method /\ log[lo].gameId = gameId /\ log[lo].id = id
        THEN log[lo].messages ELSE <<>>)
       \o Carried(log, method, gameId, id, lo + 1, hi)

\* The last GET for (gameId, id) before request k, 0 when there is none.
PrevGET(log, gameId, id, k) ==
  LET gets == {j \in 1..(k - 1) : /\ log[j].method = "GET"
                                  /\ log[j].gameId = gameId /\ log[j].id = id}
  IN  IF gets = {} THEN 0 ELSE CHOOSE j \in gets : \A i \in gets : i <= j

CountOf(seq, m) == Cardinality({i \in 1..Len(seq) : seq[i] = m})

\* C16: for every key, no message was handed out by GETs more often than it
\* was posted, and what is queued under the key was posted after the last
\* GET for it.
C16_DestructiveFetch ==
  \A gameId \in GameIds, id \in RelayPeers :
    LET n == Len(hist.log)
        posted == Carried(hist.log, "POST", gameId, id, 1, n)
        returned == Carried(hist.log, "GET", gameId, id, 1, n)
        last == PrevGET(hist.log, gameId, id, n + 1)
    IN  /\ \A k \in 1..Len(returned) :
             CountOf(returned, returned[k]) <= CountOf(posted, returned[k])
        /\ MapGet(signalingData, Key(gameId, id))
             = Carried(hist.log, "POST", gameId, id, last + 1, n)

\* Two GETs for one key, the first of which handed out a message, with a
\* POST for the key between them.
C16_Witness ==
  \E j, k \in 1..Len(hist.log) :
    /\ j + 1 < k
    /\ hist.log[j].method = "GET" /\ hist.log[k].method = "GET"
    /\ hist.log[j].messages # <<>> /\ hist.log[k].messages # <<>>
    /\ hist.log[j].gameId = hist.log[k].gameId /\ hist.log[j].id = hist.log[k].id

\* C17: every GET for (gameId, playerId) answered with the messages posted
\* for that pair since the previous GET for it, in the order of the POSTs,
\* and with nothing else.
C17_Addressing ==
  \A k \in 1..Len(hist.log) :
    hist.log[k].method = "GET"
    => hist.log[k].messages
         = Carried(hist.log, "POST", hist.log[k].gameId, hist.log[k].id,
                   PrevGET(hist.log, hist.log[k].gameId, hist.log[k].id, k) + 1,
                   k - 1)

\* A GET handed out two different messages while a message for the same
\* player in the other game stays queued.
C17_Witness ==
  \E k \in 1..Len(hist.log) :
    /\ hist.log[k].method = "GET"
    /\ Len(hist.log[k].messages) = 2
    /\ hist.log[k].messages[1] # hist.log[k].messages[2]
    /\ \E g \in GameIds \ {hist.log[k].gameId} :
         MapGet(signalingData, Key(g, hist.log[k].id)) # <<>>

\* ---------------------------------------------------------- alice and bob
Sent(type) == {m \in hist.sent : m.type = type}
BothConnected ==
  /\ connectionStates["alice"]["bob"] = "connected"
  /\ connectionStates["bob"]["alice"] = "connected"

\* Nothing is left to run: no timer, no suspended handler, no request in
\* flight, no message at the relay and no event the browser could report.
Quiet == timers = {} /\ ~ENABLED NextPair

\* C2: in the glare scenario, the step in which the second of the two hooks
\* takes up the other's Offer, each having sent its own Offer before, leaves
\* one of them Initiator and the other Responder for the pair.
C2_GlareRoles ==
  [][/\ hist.callers = Hooks
     /\ hist.handled' # hist.handled
     /\ \A h \in Hooks : hist.handled'[h] = "glare"
     => {isInitiator'["alice"]["bob"], isInitiator'["bob"]["alice"]}
          = {"true", "false"}]_vars

\* C3: when only alice calls establishConnections([bob]): the only Offer ever
\* sent is one from alice, the only Answer one from bob, bob holds no
\* Initiator session, a run that has come to rest has both sides connected,
\* and when both are connected each side's remoteStreams has the other.
C3_CallScenario ==
  hist.callers = {"alice"} =>
    /\ Cardinality(Sent("offer")) <= 1
    /\ \A m \in Sent("offer") : m.from = "alice" /\ m.to = "bob"
    /\ Cardinality(Sent("answer")) <= 1
    /\ \A m \in Sent("answer") : m.from = "bob" /\ m.to = "alice"
    /\ isInitiator["bob"]["alice"] # "true"
    /\ Quiet => BothConnected
    /\ BothConnected =>
         remoteStreams["alice"]["bob"] # 0 /\ remoteStreams["bob"]["alice"] # 0

\* Only alice called, one Offer and one Answer went out and both sides are connected.
C3_Witness ==
  /\ hist.callers = {"alice"}
  /\ Cardinality(Sent("offer")) = 1 /\ Cardinality(Sent("answer")) = 1
  /\ BothConnected
  /\ remoteStreams["alice"]["bob"] # 0 /\ remoteStreams["bob"]["alice"] # 0

\* C4: in the glare scenario a run that has come to rest, with every message
\* delivered and handled, has both sides connected and no offer pending.
C4_GlareEndsConnected ==
  hist.callers = Hooks /\ Quiet =>
    BothConnected /\ \A h \in Hooks : pendingOffers[h] = {}

\* C5: in the glare scenario at most one Answer is ever sent.
C5_OneExchange ==
  hist.callers = Hooks => Cardinality(Sent("answer")) <= 1

\* ------------------------------------------------ alice and a failing peer
\* All the hands of a game, one after the other.
RECURSIVE Hands(_)
Hands(players) ==
  IF players = <<>> THEN <<>> ELSE Head(players).hand \o Hands(Tail(players))

\* Every card of a game, wherever it is.
AllCards(game) == game.deck \o game.discardPile \o Hands(game.players)

\* C32: in every game of the serverless game API each of the NumCards cards
\* is in exactly one place among the deck, the discard pile and the hands.
C32_CardsConserved ==
  \A g \in DOMAIN backend.games :
    LET all == AllCards(backend.games[g])
    IN  /\ Len(all) = NumCards
        /\ {all[i] : i \in 1..Len(all)} = Cards

\* A game with two players in which a card was played and a card was drawn.
C32_Witness ==
  \E g \in DOMAIN backend.games :
    /\ Len(backend.games[g].players) >= 2
    /\ backend.games[g].discardPile # <<>>
    /\ Len(backend.games[g].deck)
         < NumCards - HandSize * Len(backend.games[g].players)

\* The game the clients play, and whether there is one.
Game == backend.games[GameId]
HasGame == GameId \in DOMAIN backend.games
CurrentPlayer == Game.players[Game.currentPlayerIndex + 1]

AllTypes(hand) == \A k \in 1..Len(Types) : \E i \in 1..Len(hand) : TypeOf(hand[i]) = Types[k]

\* C36: while a game of the serverless game API is finished, its winner is
\* the id of one of its players whose hand holds all five types, no playCard
\* or drawCard request changes it, and it stays finished until newGame.
\* (createGame for the id makes a new game.)
C36_FinishedUntilNewGame ==
  [][HasGame /\ Game.gamePhase = "finished"
     => /\ \E k \in 1..Len(Game.players) :
             Game.players[k].id = Game.winner /\ AllTypes(Game.players[k].hand)
        /\ \/ \E playerId \in PeerIds : DrawCard(playerId)
           \/ \E playerId \in PeerIds : \E card \in Playable(playerId) :
                 PlayCard(playerId, card)
           => backend'.games = backend.games
        /\ Game'.gamePhase # "finished"
           => \/ \E deck \in Shuffles : NewGame(deck)
              \/ \E deck \in Shuffles : CreateGame(Host, deck)]_vars

\* C37: when the turn timer of the current player runs out while the deck is
\* not empty, the draw it asks for is accepted, and the turn passes to the
\* next player or the game is finished.
C37_ExpiredTurnPasses ==
  [][TurnExpired
     => /\ Len(Game'.deck) = Len(Game.deck) - 1
        /\ \/ Game'.gamePhase = "finished"
           \/ Game'.currentPlayerIndex
                = (Game.currentPlayerIndex + 1) % Len(Game.players)]_vars

\* C38: every peer marked in pendingOffers has a session in peerConnections.
C38_PendingOfferHasSession ==
  impl = "serverless" =>
    \A h \in Hooks : \A p \in pendingOffers[h] : peerConnections[h][p] # 0

\* A session whose Offer was out has been removed, and the mark with it.
C38_Witness ==
  \E h \in Hooks, p \in PeerIds : \E n \in 1..Len(pcs[h][p]) :
    /\ impl = "serverless"
    /\ \E m \in hist.sent :
         m.type = "offer" /\ m.from = h /\ m.to = p /\ m.payload.src = n
    /\ p \in hist.removed[h]
    /\ peerConnections[h][p] = 0 /\ p \notin pendingOffers[h]

\* C39: establishedConnections holds a peer only if the peer has a session
\* whose connection state is connected.
C39_EstablishedIsConnected ==
  impl = "serverless" =>
    \A h \in Hooks : \A p \in establishedConnections[h] :
      /\ peerConnections[h][p] # 0
      /\ connectionStates[h][p] = "connected"

\* A session that was connected is now recorded as disconnected, and the
\* peer is no longer in establishedConnections.
C39_Witness ==
  \E h \in Hooks, p \in PeerIds :
    /\ impl = "serverless"
    /\ peerConnections[h][p] # 0
    /\ connectionStates[h][p] = "disconnected"
    /\ p \notin establishedConnections[h]

useWebRTC_listeners(W, h, m) ==
  CASE m.type = "offer" -> useWebRTC_handleOffer(W, h, m)
    [] m.type = "answer" -> useWebRTC_handleAnswer(W, h, m)
    [] OTHER -> useWebRTC_handleIceCandidate(W, h, m)

\* What a peer's session looks like from outside, and what was emitted.
Session(W, h, p) ==
  LET pc == W.peerConnections[h][p]
  IN  IF pc = 0 THEN <<"none">>
      ELSE <<W.pcs[h][p][pc].sig, W.pcs[h][p][pc].hasRemote, W.pcs[h][p][pc].conn>>

Emitted(W) == {<<m.type, m.from, m.to>> : m \in W.hist.sent}

Corresponds(W1, W2, h) ==
  /\ \A p \in PeerIds : Session(W1, h, p) = Session(W2, h, p)
  /\ Emitted(W1) = Emitted(W2)

\* C29: whenever the polling hook handles an inbound Offer, Answer or
\* Candidate, or an ICE failure of a session, it reaches the per-peer session
\* states and the emitted messages that the socket hook's handler reaches from
\* the same state on the same input.
C29_SameStateMachine ==
  [][/\ \A h \in Hooks : \A i \in 1..Len(chains[h]) :
          /\ impl = "serverless"
          /\ chains[h][i].msgs # <<>>
          /\ Head(chains[h][i].msgs).from # h
          /\ Head(chains[h][i].msgs).payload.some
          /\ HandleMessage(h, i)
          => Corresponds(World',
                         useWebRTC_listeners(World, h, Head(chains[h][i].msgs)), h)
     /\ \A h \in Hooks, p \in PeerIds : \A n \in 1..Len(pcs[h][p]) :
          /\ impl = "serverless"
          /\ pcs[h][p][n].conn \in {"connecting", "connected", "disconnected"}
          /\ EnvFailed(h, p, n, "ice")
          => Corresponds(World',
                         useWebRTC_oniceconnectionstatechange(
                           SetConn(World, h, p, n, "failed"), h, p, n, "failed"),
                         h)]_vars

\* useWebRTC holds nothing for p.
Released(h, p) == peerConnections[h][p] = 0 /\ pendingCandidates[h][p] = <<>>

\* The step sends nothing and leaves no initiateCall or timer behind.
Schedules ==
  \/ hist.sent' # hist.sent
  \/ ~(calls' \subseteq calls)
  \/ ~(timers' \subseteq timers)

C28_RetryDelayGrows ==
  \A t \in timers :
    t.kind = "retry" =>
      t.delay = RetryBaseMs + RetryBaseMs * hist.retries[t.h][t.peer]

\* C7: the retry timer of handleConnectionFailure re-initiates a connection
\* whose attempts all fail at most MaxAttempts times.
C7_RetryBound == \A p \in Others("alice") : hist.retries["alice"][p] <= MaxAttempts

\* C33: in the socket game server, after any sequence of create-game,
\* join-game, start-game, play-card, draw-card and disconnect events, a game
\* that still has players has a currentPlayerIndex that is an index into its
\* players, and neither play-card nor draw-card throws for want of a current
\* player.
C33_CurrentPlayerExists ==
  /\ \A gameId \in DOMAIN backend.games :
        Len(backend.games[gameId].players) > 0
          => backend.games[gameId].currentPlayerIndex
               < Len(backend.games[gameId].players)
  /\ backend.thrown = {}

\* C34: a game never has more than 8 players, also when several joinGame
\* requests for the same game interleave between the count of the players and
\* the insertion of the new player.
C34_AtMostEightPlayers ==
  \A gameId \in DOMAIN backend.games :
    Len(backend.games[gameId].players) <= MaxPlayers

====
